---------------------------- MODULE Spec2Model ----------------------------
(***************************************************************************)
(* A model of rrtest2.py: the world state of the racing/combat game, the   *)
(* per-tick transition simulate_one_tick, the terminal predicate, the      *)
(* evaluation function, the opponent's alpha-beta search and the session   *)
(* driver game_loop.                                                       *)
(*                                                                         *)
(* Numbers are fixed-point integers:                                      *)
(*   speed, dt, acceleration      in hundredths   (3.0  -> 300, 0.14 -> 14)*)
(*   position, distances          in 1/10000      (6.0  -> 60000)          *)
(*   health, damage               in thousandths  (0.28 -> 280)            *)
(*   random.random()              in hundredths   (0 .. 99)                *)
(*   evaluation scores            in millionths                            *)
(* so that pos += speed * dt is exact (speed * TICK).  A product with a    *)
(* fractional factor (speed *= 0.55) is truncated to the unit.             *)
(***************************************************************************)
EXTENDS Integers, Sequences, FiniteSets, TLC

\* --- Game constants (rrtest2.py lines 25-48) ---
LANES == 3
TRACK_LENGTH == 2200000
TICK == 14
MAX_SPEED == 1400
ACCEL == 300
BRAKE == -500
ATTACK_RANGE == 35000
ATTACK_DAMAGE == 280
MAX_HEALTH == 1000
ATTACK_COOLDOWN_TICKS == 180 \div TICK
BOOST_DURATION_TICKS == 200 \div TICK
BOOST_SPEED_MULT == 150
DEPTH_AGGRESSIVE == 4
DEPTH_BALANCED == 3
ACTION_LIST == <<"ACCEL", "BRAKE", "LEFT", "RIGHT", "ATTACK", "MAINTAIN">>
HAZARD_COUNT == 8
HAZARD_SLIP_FACTOR == 55
HAZARD_DAMAGE == 50
NEUTRAL_COUNT == 5
NEUTRAL_MAX_SPEED == 800

\* the set of the six tick actions
ActionSet == {ACTION_LIST[i] : i \in 1..Len(ACTION_LIST)}

\* the boosted speed ceiling MAX_SPEED * BOOST_SPEED_MULT
BoostCeiling == (MAX_SPEED * BOOST_SPEED_MULT) \div 100

\* the tick bound of is_terminal, the bump distance and penalty, the hazard
\* margin, the close-range threshold of the evaluation, the neutral floor
\* speed and the lane-drift interval int(0.6 / TICK)
MAX_TICKS == 7000
BUMP_DISTANCE == 8000
BUMP_DAMAGE == 20
BUMP_SLOWDOWN == 90
HAZARD_MARGIN == 6000
COLLISION_RANGE == 30000
NEUTRAL_MIN_SPEED == 50
DRIFT_INTERVAL == 60 \div TICK
NEVER_ATTACKED == -999

\* --- Utilities ---
clamp(v, a, b) == IF (IF b < v THEN b ELSE v) < a THEN a ELSE (IF b < v THEN b ELSE v)

abs(x) == IF x < 0 THEN -x ELSE x

\* --- State ---
\* _attack_animation is None (the empty tuple) or (who, from_lane, to_lane, 4)
None == <<>>

\* State.__init__: a State with the transient flags cleared
State(p_pos, p_speed, p_lane, p_health, o_pos, o_speed, o_lane, o_health, tick, p_last_attack_tick, o_last_attack_tick, p_boost_avail, p_boost_ticks_left, hazards, neutrals) ==
    [p_pos |-> p_pos, p_speed |-> p_speed, p_lane |-> p_lane, p_health |-> p_health,
     o_pos |-> o_pos, o_speed |-> o_speed, o_lane |-> o_lane, o_health |-> o_health,
     tick |-> tick,
     p_last_attack_tick |-> p_last_attack_tick,
     o_last_attack_tick |-> o_last_attack_tick,
     p_boost_avail |-> p_boost_avail, p_boost_ticks_left |-> p_boost_ticks_left,
     hazards |-> hazards, neutrals |-> neutrals,
     last_hit_by_player |-> FALSE, last_hit_by_opponent |-> FALSE,
     last_hazard_hit_player |-> FALSE, last_hazard_hit_opponent |-> FALSE,
     attack_animation |-> None]

\* Neutral.__init__
Neutral(pos, lane, speed, health, id) ==
    [pos |-> pos, lane |-> lane, speed |-> speed, health |-> health, id |-> id,
     tick_last_dir |-> 0]

\* --- Simulation: the statements of simulate_one_tick on the copy s ---

\* an apply_speed under which a combatant that neither accelerates nor brakes
\* loses speed
apply_speed_drag(s, speed, act, is_player) ==
    LET sp == IF act = "ACCEL" THEN speed + (ACCEL * TICK) \div 100
              ELSE IF act = "BRAKE" THEN speed + (BRAKE * TICK) \div 100
              ELSE speed - 1
    IN IF is_player /\ s.p_boost_ticks_left > 0
       THEN clamp(sp, 0, BoostCeiling)
       ELSE clamp(sp, 0, MAX_SPEED)

\* apply_speed: the action's speed change, clamped to the boosted ceiling
\* while the player's boost is active
apply_speed(s, speed, act, is_player) ==
    LET sp == IF act = "ACCEL" THEN speed + (ACCEL * TICK) \div 100
              ELSE IF act = "BRAKE" THEN speed + (BRAKE * TICK) \div 100
              ELSE speed
    IN IF is_player /\ s.p_boost_ticks_left > 0
       THEN clamp(sp, 0, BoostCeiling)
       ELSE clamp(sp, 0, MAX_SPEED)

\* one neutral's update: lane drift, speed jitter, position
\* rnd.drift_roll[i]: random.random() in hundredths; rnd.drift_dir[i]:
\* random.choice([-1,0,1]); rnd.jitter[i]: random.uniform(-0.6, 0.6) * dt
UpdateNeutral(n, tick, rnd, i) ==
    LET drift == (tick - n.tick_last_dir > DRIFT_INTERVAL) /\ rnd.drift_roll[i] < 25
        lane == IF drift THEN clamp(n.lane + rnd.drift_dir[i], 0, LANES - 1) ELSE n.lane
        tld == IF drift THEN tick ELSE n.tick_last_dir
        speed == clamp(n.speed + rnd.jitter[i], NEUTRAL_MIN_SPEED, NEUTRAL_MAX_SPEED)
    IN [n EXCEPT !.lane = lane, !.tick_last_dir = tld, !.speed = speed,
                 !.pos = n.pos + speed * TICK]

\* the neutrals loop, from neutral i on; done holds the updated ones
RECURSIVE UpdateNeutrals(_, _, _, _, _)
UpdateNeutrals(neutrals, tick, rnd, i, done) ==
    IF i > Len(neutrals) THEN done
    ELSE UpdateNeutrals(neutrals, tick, rnd, i + 1,
                        Append(done, UpdateNeutral(neutrals[i], tick, rnd, i)))

\* a lane change that wraps round the road's edge
ChangeLaneWrapping(lane, act) ==
    IF act = "LEFT" THEN (lane + LANES - 1) % LANES
    ELSE IF act = "RIGHT" THEN (lane + 1) % LANES
    ELSE lane

\* lane changes for player/opponent
ChangeLane(lane, act) ==
    IF act = "LEFT" THEN clamp(lane - 1, 0, LANES - 1)
    ELSE IF act = "RIGHT" THEN clamp(lane + 1, 0, LANES - 1)
    ELSE lane

\* a boost countdown that omits line 215's re-clamp at expiry
BoostTickKeepsSpeed(s) ==
    IF s.p_boost_ticks_left > 0
    THEN [s EXCEPT !.p_boost_ticks_left = s.p_boost_ticks_left - 1]
    ELSE s

\* handle boost ticks
BoostTick(s) ==
    IF s.p_boost_ticks_left > 0
    THEN LET left == s.p_boost_ticks_left - 1
         IN [s EXCEPT !.p_boost_ticks_left = left,
                      !.p_speed = IF left = 0 THEN clamp(s.p_speed, 0, MAX_SPEED)
                                  ELSE s.p_speed]
    ELSE s

\* reset transient flags
ResetFlags(s) ==
    [s EXCEPT !.last_hit_by_player = FALSE, !.last_hit_by_opponent = FALSE,
              !.last_hazard_hit_player = FALSE, !.last_hazard_hit_opponent = FALSE,
              !.attack_animation = None]

\* a scan that takes a knocked-out neutral for a target
RECURSIVE FirstTargetAny(_, _, _, _)
FirstTargetAny(neutrals, lane, pos, i) ==
    IF i > Len(neutrals) THEN 0
    ELSE IF neutrals[i].lane = lane /\ abs(neutrals[i].pos - pos) <= ATTACK_RANGE
         THEN i
         ELSE FirstTargetAny(neutrals, lane, pos, i + 1)

\* the index of the first neutral with health > 0 in the lane within
\* ATTACK_RANGE of pos, scanning from index i; 0 when there is none
RECURSIVE FirstTarget(_, _, _, _)
FirstTarget(neutrals, lane, pos, i) ==
    IF i > Len(neutrals) THEN 0
    ELSE IF neutrals[i].health > 0 /\ neutrals[i].lane = lane
            /\ abs(neutrals[i].pos - pos) <= ATTACK_RANGE
         THEN i
         ELSE FirstTarget(neutrals, lane, pos, i + 1)

\* a cooldown test that never blocks, and one that is a tick short
CooldownIgnored(tick, last_attack_tick) == TRUE

CooldownOneShort(tick, last_attack_tick) ==
    (tick - last_attack_tick) >= ATTACK_COOLDOWN_TICKS - 1

\* whether an attack issued now is off cooldown
CooldownElapsed(tick, last_attack_tick) ==
    (tick - last_attack_tick) >= ATTACK_COOLDOWN_TICKS

\* a player's attack that records the tick after the one it was issued at
PlayerAttackLateStamp(s, pa) ==
    IF pa = "ATTACK" /\ (s.tick - s.p_last_attack_tick) >= ATTACK_COOLDOWN_TICKS
    THEN IF s.p_lane = s.o_lane /\ abs(s.p_pos - s.o_pos) <= ATTACK_RANGE
         THEN [s EXCEPT !.p_last_attack_tick = s.tick + 1,
                        !.o_health = clamp(s.o_health - ATTACK_DAMAGE, 0, MAX_HEALTH),
                        !.last_hit_by_player = TRUE,
                        !.attack_animation = <<"P", s.p_lane, s.o_lane, 4>>]
         ELSE [s EXCEPT !.p_last_attack_tick = s.tick + 1]
    ELSE s

\* a player's attack that goes through the opponent to the neutral behind
PlayerAttackThrough(s, pa) ==
    IF pa = "ATTACK" /\ CooldownElapsed(s.tick, s.p_last_attack_tick)
    THEN LET s1 == [s EXCEPT !.p_last_attack_tick = s.tick]
             k == FirstTarget(s1.neutrals, s1.p_lane, s1.p_pos, 1)
             s2 == IF s1.p_lane = s1.o_lane /\ abs(s1.p_pos - s1.o_pos) <= ATTACK_RANGE
                   THEN [s1 EXCEPT !.o_health = clamp(s1.o_health - ATTACK_DAMAGE, 0, MAX_HEALTH),
                                   !.last_hit_by_player = TRUE,
                                   !.attack_animation = <<"P", s1.p_lane, s1.o_lane, 4>>]
                   ELSE s1
         IN IF k > 0
            THEN [s2 EXCEPT !.neutrals[k].health =
                                clamp(s2.neutrals[k].health - ATTACK_DAMAGE, 0, MAX_HEALTH),
                            !.last_hit_by_player = TRUE,
                            !.attack_animation = <<"P", s2.p_lane, s2.neutrals[k].lane, 4>>]
            ELSE s2
    ELSE s

\* a player's attack that records its tick only when it hits something
PlayerAttackFreeMiss(s, pa) ==
    IF pa = "ATTACK" /\ CooldownElapsed(s.tick, s.p_last_attack_tick)
    THEN LET k == FirstTarget(s.neutrals, s.p_lane, s.p_pos, 1)
         IN IF s.p_lane = s.o_lane /\ abs(s.p_pos - s.o_pos) <= ATTACK_RANGE
            THEN [s EXCEPT !.p_last_attack_tick = s.tick,
                           !.o_health = clamp(s.o_health - ATTACK_DAMAGE, 0, MAX_HEALTH),
                           !.last_hit_by_player = TRUE,
                           !.attack_animation = <<"P", s.p_lane, s.o_lane, 4>>]
            ELSE IF k > 0
            THEN [s EXCEPT !.p_last_attack_tick = s.tick,
                           !.neutrals[k].health =
                               clamp(s.neutrals[k].health - ATTACK_DAMAGE, 0, MAX_HEALTH),
                           !.last_hit_by_player = TRUE,
                           !.attack_animation = <<"P", s.p_lane, s.neutrals[k].lane, 4>>]
            ELSE s
    ELSE s

\* the player's attack: the opponent first, then the neutrals
PlayerAttack(s, pa) ==
    IF pa = "ATTACK" /\ CooldownElapsed(s.tick, s.p_last_attack_tick)
    THEN LET s1 == [s EXCEPT !.p_last_attack_tick = s.tick]
             k == FirstTarget(s1.neutrals, s1.p_lane, s1.p_pos, 1)
         IN IF s1.p_lane = s1.o_lane /\ abs(s1.p_pos - s1.o_pos) <= ATTACK_RANGE
            THEN [s1 EXCEPT !.o_health = clamp(s1.o_health - ATTACK_DAMAGE, 0, MAX_HEALTH),
                            !.last_hit_by_player = TRUE,
                            !.attack_animation = <<"P", s1.p_lane, s1.o_lane, 4>>]
            ELSE IF k > 0
            THEN [s1 EXCEPT !.neutrals[k].health =
                                clamp(s1.neutrals[k].health - ATTACK_DAMAGE, 0, MAX_HEALTH),
                            !.last_hit_by_player = TRUE,
                            !.attack_animation = <<"P", s1.p_lane, s1.neutrals[k].lane, 4>>]
            ELSE s1
    ELSE s

\* an opponent's attack that a knocked-out opponent no longer makes
OpponentAttackIfAlive(s, oa) ==
    IF oa = "ATTACK" /\ CooldownElapsed(s.tick, s.o_last_attack_tick) /\ s.o_health > 0
    THEN LET s1 == [s EXCEPT !.o_last_attack_tick = s.tick]
             k == FirstTarget(s1.neutrals, s1.o_lane, s1.o_pos, 1)
         IN IF s1.o_lane = s1.p_lane /\ abs(s1.o_pos - s1.p_pos) <= ATTACK_RANGE
            THEN [s1 EXCEPT !.p_health = clamp(s1.p_health - ATTACK_DAMAGE, 0, MAX_HEALTH),
                            !.last_hit_by_opponent = TRUE,
                            !.attack_animation = <<"O", s1.o_lane, s1.p_lane, 4>>]
            ELSE IF k > 0
            THEN [s1 EXCEPT !.neutrals[k].health =
                                clamp(s1.neutrals[k].health - ATTACK_DAMAGE, 0, MAX_HEALTH),
                            !.last_hit_by_opponent = TRUE,
                            !.attack_animation = <<"O", s1.o_lane, s1.neutrals[k].lane, 4>>]
            ELSE s1
    ELSE s

\* the opponent's attack: the player first, then the neutrals
OpponentAttack(s, oa) ==
    IF oa = "ATTACK" /\ CooldownElapsed(s.tick, s.o_last_attack_tick)
    THEN LET s1 == [s EXCEPT !.o_last_attack_tick = s.tick]
             k == FirstTarget(s1.neutrals, s1.o_lane, s1.o_pos, 1)
         IN IF s1.o_lane = s1.p_lane /\ abs(s1.o_pos - s1.p_pos) <= ATTACK_RANGE
            THEN [s1 EXCEPT !.p_health = clamp(s1.p_health - ATTACK_DAMAGE, 0, MAX_HEALTH),
                            !.last_hit_by_opponent = TRUE,
                            !.attack_animation = <<"O", s1.o_lane, s1.p_lane, 4>>]
            ELSE IF k > 0
            THEN [s1 EXCEPT !.neutrals[k].health =
                                clamp(s1.neutrals[k].health - ATTACK_DAMAGE, 0, MAX_HEALTH),
                            !.last_hit_by_opponent = TRUE,
                            !.attack_animation = <<"O", s1.o_lane, s1.neutrals[k].lane, 4>>]
            ELSE s1
    ELSE s

\* proximity of an entity to a hazard: same lane, distance < speed * dt + 0.6
HazardNear(hz, pos, lane, speed) ==
    hz[2] = lane /\ abs(pos - hz[1]) < speed * TICK + HAZARD_MARGIN

\* hazard h against the player: slowed and damaged deterministically
HazardPlayer(s, hz) ==
    IF HazardNear(hz, s.p_pos, s.p_lane, s.p_speed)
    THEN [s EXCEPT !.p_speed = (s.p_speed * HAZARD_SLIP_FACTOR) \div 100,
                   !.p_health = clamp(s.p_health - HAZARD_DAMAGE, 0, MAX_HEALTH),
                   !.last_hazard_hit_player = TRUE]
    ELSE s

\* a hazard whose damage factor is random.random() - 0.5, which can be
\* negative
HazardOpponentLucky(s, hz, rnd, h) ==
    IF HazardNear(hz, s.o_pos, s.o_lane, s.o_speed) /\ rnd.o_hz_roll[h] < 70
    THEN [s EXCEPT !.o_speed = (s.o_speed * (HAZARD_SLIP_FACTOR * 100 + 8 * rnd.o_hz_slip[h]))
                                   \div 10000,
                   !.o_health = clamp(s.o_health
                                        - (HAZARD_DAMAGE * (rnd.o_hz_dmg[h] - 50)) \div 100,
                                      0, MAX_HEALTH),
                   !.last_hazard_hit_opponent = TRUE]
    ELSE s

\* hazard h against the opponent: with probability 0.7, by random factors
\* rnd.o_hz_roll[h], rnd.o_hz_slip[h], rnd.o_hz_dmg[h]: random.random()
HazardOpponent(s, hz, rnd, h) ==
    IF HazardNear(hz, s.o_pos, s.o_lane, s.o_speed) /\ rnd.o_hz_roll[h] < 70
    THEN [s EXCEPT !.o_speed = (s.o_speed * (HAZARD_SLIP_FACTOR * 100 + 8 * rnd.o_hz_slip[h]))
                                   \div 10000,
                   !.o_health = clamp(s.o_health
                                        - (HAZARD_DAMAGE * (50 + rnd.o_hz_dmg[h])) \div 100,
                                      0, MAX_HEALTH),
                   !.last_hazard_hit_opponent = TRUE]
    ELSE s

\* hazard h against neutral i: with probability 0.6, by random factors
\* rnd.n_hz_roll[h][i], rnd.n_hz_slip[h][i], rnd.n_hz_dmg[h][i]
HazardNeutral(n, hz, rnd, h, i) ==
    IF HazardNear(hz, n.pos, n.lane, n.speed) /\ rnd.n_hz_roll[h][i] < 60
    THEN [n EXCEPT !.speed = (n.speed * (HAZARD_SLIP_FACTOR * 10 + rnd.n_hz_slip[h][i]))
                                 \div 1000,
                   !.health = clamp(n.health
                                      - (HAZARD_DAMAGE * (50 + rnd.n_hz_dmg[h][i])) \div 100,
                                    0, MAX_HEALTH)]
    ELSE n

\* hazard h against every neutral, from neutral i on
RECURSIVE HazardNeutrals(_, _, _, _, _, _)
HazardNeutrals(neutrals, hz, rnd, h, i, done) ==
    IF i > Len(neutrals) THEN done
    ELSE HazardNeutrals(neutrals, hz, rnd, h, i + 1,
                        Append(done, HazardNeutral(neutrals[i], hz, rnd, h, i)))

\* a hazard loop in which a hazard the player ran into is used up
RECURSIVE HazardLoopConsuming(_, _, _, _)
HazardLoopConsuming(s, rnd, h, new_hz) ==
    IF h > Len(s.hazards) THEN [s EXCEPT !.hazards = new_hz]
    ELSE HazardLoopConsuming(
             [HazardOpponent(HazardPlayer(s, s.hazards[h]), s.hazards[h], rnd, h)
                EXCEPT !.neutrals = HazardNeutrals(s.neutrals, s.hazards[h], rnd, h, 1, <<>>)],
             rnd, h + 1,
             IF HazardNear(s.hazards[h], s.p_pos, s.p_lane, s.p_speed)
             THEN new_hz ELSE Append(new_hz, s.hazards[h]))

\* the hazard loop from hazard h on; new_hz collects every hazard again
RECURSIVE HazardLoop(_, _, _, _)
HazardLoop(s, rnd, h, new_hz) ==
    IF h > Len(s.hazards) THEN [s EXCEPT !.hazards = new_hz]
    ELSE LET hz == s.hazards[h]
             s1 == HazardPlayer(s, hz)
             s2 == HazardOpponent(s1, hz, rnd, h)
             s3 == [s2 EXCEPT !.neutrals = HazardNeutrals(s2.neutrals, hz, rnd, h, 1, <<>>)]
         IN HazardLoop(s3, rnd, h + 1, Append(new_hz, hz))

\* a collision loop in which a knocked-out neutral still bumps
RECURSIVE BumpLoopAnyNeutral(_, _)
BumpLoopAnyNeutral(s, i) ==
    IF i > Len(s.neutrals) THEN s
    ELSE LET n == s.neutrals[i]
             s1 == IF n.lane = s.p_lane /\ abs(n.pos - s.p_pos) < BUMP_DISTANCE
                   THEN [s EXCEPT !.p_health = clamp(s.p_health - BUMP_DAMAGE, 0, MAX_HEALTH),
                                  !.p_speed = (s.p_speed * BUMP_SLOWDOWN) \div 100]
                   ELSE s
             s2 == IF n.lane = s1.o_lane /\ abs(n.pos - s1.o_pos) < BUMP_DISTANCE
                   THEN [s1 EXCEPT !.o_health = clamp(s1.o_health - BUMP_DAMAGE, 0, MAX_HEALTH),
                                   !.o_speed = (s1.o_speed * BUMP_SLOWDOWN) \div 100]
                   ELSE s1
         IN BumpLoopAnyNeutral(s2, i + 1)

\* neutral collisions with player/opponent, from neutral i on
RECURSIVE BumpLoop(_, _)
BumpLoop(s, i) ==
    IF i > Len(s.neutrals) THEN s
    ELSE LET n == s.neutrals[i]
             s1 == IF n.health > 0 /\ n.lane = s.p_lane
                      /\ abs(n.pos - s.p_pos) < BUMP_DISTANCE
                   THEN [s EXCEPT !.p_health = clamp(s.p_health - BUMP_DAMAGE, 0, MAX_HEALTH),
                                  !.p_speed = (s.p_speed * BUMP_SLOWDOWN) \div 100]
                   ELSE s
             s2 == IF n.health > 0 /\ n.lane = s1.o_lane
                      /\ abs(n.pos - s1.o_pos) < BUMP_DISTANCE
                   THEN [s1 EXCEPT !.o_health = clamp(s1.o_health - BUMP_DAMAGE, 0, MAX_HEALTH),
                                   !.o_speed = (s1.o_speed * BUMP_SLOWDOWN) \div 100]
                   ELSE s1
         IN BumpLoop(s2, i + 1)

\* a tick that leaves the counter alone
NextTickSkipped(s) == s

\* the tick counter's increment
NextTick(s) == [s EXCEPT !.tick = s.tick + 1]

\* apply base speed change
Speeds(s, pa, oa) ==
    [s EXCEPT !.p_speed = apply_speed(s, s.p_speed, pa, TRUE),
              !.o_speed = apply_speed(s, s.o_speed, oa, FALSE)]

\* neutrals update
NeutralsStep(s, rnd) ==
    [s EXCEPT !.neutrals = UpdateNeutrals(s.neutrals, s.tick, rnd, 1, <<>>)]

\* lane changes for player/opponent
LaneChanges(s, pa, oa) ==
    [s EXCEPT !.p_lane = ChangeLane(s.p_lane, pa), !.o_lane = ChangeLane(s.o_lane, oa)]

\* update positions
Positions(s) ==
    [s EXCEPT !.p_pos = s.p_pos + s.p_speed * TICK, !.o_pos = s.o_pos + s.o_speed * TICK]

\* the statements of simulate_one_tick before the attacks, innermost first:
\* speeds, neutrals, lanes, positions, boost, flags
BeforeAttacks(s0, pa, oa, rnd) ==
    ResetFlags(
      BoostTick(
        Positions(
          LaneChanges(
            NeutralsStep(Speeds(s0, pa, oa), rnd),
            pa, oa))))

\* the statements after the attacks: hazards, bumps, tick
AfterAttacks(s1, rnd) == NextTick(BumpLoop(HazardLoop(s1, rnd, 1, <<>>), 1))

\* the body of simulate_one_tick after s = state.copy(), on the values of
\* s: its statements in their order
TickBody(s0, pa, oa, rnd) ==
    AfterAttacks(OpponentAttack(PlayerAttack(BeforeAttacks(s0, pa, oa, rnd), pa), oa), rnd)

\* --- Objects: the heap of State, list and Neutral objects ---
\* A heap is a sequence of objects and an address is an index into it.  A
\* State object holds its scalar fields and the addresses of its hazards
\* list and of its neutrals list; a list object is the sequence of its
\* items (hazard tuples, or the addresses of Neutral objects).

\* a new object at the end of the heap
Alloc(heap, obj) == [heap |-> Append(heap, obj), addr |-> Len(heap) + 1]

\* a shallow copy: the Neutral object itself, shared with the original list
NeutralShared(heap, a) == [heap |-> heap, addr |-> a]

\* Neutral.copy: a new Neutral with the fields of the one at address a
NeutralCopy(heap, a) == Alloc(heap, heap[a])

\* [n.copy() for n in self.neutrals]: the copies of the neutrals in the list
\* at address l, from item i on, and the list of their addresses
RECURSIVE CopyNeutrals(_, _, _, _)
CopyNeutrals(heap, l, i, acc) ==
    IF i > Len(heap[l]) THEN Alloc(heap, acc)
    ELSE LET c == NeutralCopy(heap, heap[l][i])
         IN CopyNeutrals(c.heap, l, i + 1, Append(acc, c.addr))

\* list(self.hazards): a new list with the same hazard tuples
CopyHazards(heap, l) == Alloc(heap, heap[l])

\* no copy at all: the tick works on the caller's State object
StateShared(heap, a) == [heap |-> heap, addr |-> a]

\* State.copy: a new State with the scalar fields and flags of the one at
\* address a, a new hazards list and a new list of copied neutrals
StateCopy(heap, a) ==
    LET hz == CopyHazards(heap, heap[a].hazards)
        ns == CopyNeutrals(hz.heap, heap[a].neutrals, 1, <<>>)
    IN Alloc(ns.heap, [heap[a] EXCEPT !.hazards = hz.addr, !.neutrals = ns.addr])

\* the values an object graph holds: the State at address a with its
\* hazards and its neutrals read through their lists
RECURSIVE DerefNeutrals(_, _, _, _)
DerefNeutrals(heap, l, i, done) ==
    IF i > Len(heap[l]) THEN done
    ELSE DerefNeutrals(heap, l, i + 1, Append(done, heap[heap[l][i]]))

Deref(heap, a) ==
    [heap[a] EXCEPT !.hazards = heap[heap[a].hazards],
                    !.neutrals = DerefNeutrals(heap, heap[a].neutrals, 1, <<>>)]

\* the values of the State a call returned
Returned(r) == Deref(r.heap, r.addr)

\* a State built from values: its neutrals, their list, its hazards list
\* and the State object (spawn_hazards, spawn_neutrals, State(...))
RECURSIVE NewNeutrals(_, _, _, _)
NewNeutrals(heap, neutrals, i, acc) ==
    IF i > Len(neutrals) THEN Alloc(heap, acc)
    ELSE LET c == Alloc(heap, neutrals[i])
         IN NewNeutrals(c.heap, neutrals, i + 1, Append(acc, c.addr))

NewState(heap, v) ==
    LET hz == Alloc(heap, v.hazards)
        ns == NewNeutrals(hz.heap, v.neutrals, 1, <<>>)
    IN Alloc(ns.heap, [v EXCEPT !.hazards = hz.addr, !.neutrals = ns.addr])

\* the assignments of simulate_one_tick through s: the fields of the State
\* object at address a, the fields of each Neutral in s.neutrals, and
\* s.hazards bound to the new list new_hz
RECURSIVE StoreNeutrals(_, _, _, _)
StoreNeutrals(heap, l, neutrals, i) ==
    IF i > Len(neutrals) THEN heap
    ELSE StoreNeutrals([heap EXCEPT ![heap[l][i]] = neutrals[i]], l, neutrals, i + 1)

Store(heap, a, v) ==
    LET hz == Alloc(heap, v.hazards)
        h1 == StoreNeutrals(hz.heap, heap[a].neutrals, v.neutrals, 1)
    IN [heap |-> [h1 EXCEPT ![a] = [v EXCEPT !.hazards = hz.addr,
                                             !.neutrals = heap[a].neutrals]],
        addr |-> a]

\* the calls of try_beep a tick makes: one where the player's attack lands
\* (lines 232, 240) and one where the opponent's lands (lines 250, 257),
\* which are the places that set the two hit flags of the State v it returns
BeepsOfTick(v) ==
    (IF v.last_hit_by_player THEN 1 ELSE 0) + (IF v.last_hit_by_opponent THEN 1 ELSE 0)

\* what a call leaves: the heap, the State returned and the beeps sounded
Sounded(r) == [heap |-> r.heap, addr |-> r.addr, beeps |-> BeepsOfTick(r.heap[r.addr])]

\* the tick on the copy c: its statements write through the copy's references
TickOnCopy(c, pa, oa, rnd) ==
    Sounded(Store(c.heap, c.addr, TickBody(Deref(c.heap, c.addr), pa, oa, rnd)))

\* simulate_one_tick(state, pa, oa): s = state.copy(), the tick on s, return s
simulate_one_tick(heap, state, pa, oa, rnd) ==
    TickOnCopy(StateCopy(heap, state), pa, oa, rnd)

\* a terminal check without the tick bound
is_terminal_untimed(s) ==
    s.p_health <= 0 \/ s.o_health <= 0 \/ s.p_pos >= TRACK_LENGTH
    \/ s.o_pos >= TRACK_LENGTH

\* a terminal check that stops at the tick bound instead of after it
is_terminal_at_bound(s) ==
    s.p_health <= 0 \/ s.o_health <= 0 \/ s.p_pos >= TRACK_LENGTH
    \/ s.o_pos >= TRACK_LENGTH \/ s.tick >= MAX_TICKS

\* --- Terminal check ---
is_terminal(s) ==
    IF s.p_health <= 0 \/ s.o_health <= 0 THEN TRUE
    ELSE IF s.p_pos >= TRACK_LENGTH \/ s.o_pos >= TRACK_LENGTH THEN TRUE
    ELSE IF s.tick > MAX_TICKS THEN TRUE
    ELSE FALSE

\* a resolution that looks at the finish line before the healths
WinnerFinishFirst(s) ==
    IF s.p_pos >= TRACK_LENGTH /\ s.o_pos < TRACK_LENGTH THEN "PLAYER"
    ELSE IF s.o_pos >= TRACK_LENGTH /\ s.p_pos < TRACK_LENGTH THEN "OPPONENT"
    ELSE IF s.p_health > 0 /\ s.o_health <= 0 THEN "PLAYER"
    ELSE IF s.o_health > 0 /\ s.p_health <= 0 THEN "OPPONENT"
    ELSE IF s.p_pos > s.o_pos THEN "PLAYER"
    ELSE IF s.o_pos > s.p_pos THEN "OPPONENT"
    ELSE "DRAW"

\* game_loop's winner on termination
Winner(s) ==
    IF s.p_health > 0 /\ s.o_health <= 0 THEN "PLAYER"
    ELSE IF s.o_health > 0 /\ s.p_health <= 0 THEN "OPPONENT"
    ELSE IF s.p_pos >= TRACK_LENGTH /\ s.o_pos < TRACK_LENGTH THEN "PLAYER"
    ELSE IF s.o_pos >= TRACK_LENGTH /\ s.p_pos < TRACK_LENGTH THEN "OPPONENT"
    ELSE IF s.p_pos > s.o_pos THEN "PLAYER"
    ELSE IF s.o_pos > s.p_pos THEN "OPPONENT"
    ELSE "DRAW"

\* --- Evaluation (player-centric), in millionths ---
Weights(mode) ==
    IF mode = "aggressive"
    THEN [progress |-> 55, speed |-> 18, lead |-> 35, health |-> 60,
          collision |-> -50, attack |-> 70]
    ELSE [progress |-> 60, speed |-> 18, lead |-> 40, health |-> 80,
          collision |-> -65, attack |-> 45]

\* an attack opportunity on either side: within ATTACK_RANGE ahead or behind
attack_op_either_side(s) ==
    IF s.p_lane = s.o_lane /\ s.p_pos # s.o_pos /\ abs(s.p_pos - s.o_pos) <= ATTACK_RANGE
    THEN 1 ELSE 0

\* the attack-opportunity and collision indicators
attack_op(s) ==
    IF s.p_lane = s.o_lane /\ 0 < (s.p_pos - s.o_pos) /\ (s.p_pos - s.o_pos) <= ATTACK_RANGE
    THEN 1 ELSE 0

collision(s) ==
    IF s.p_lane = s.o_lane /\ abs(s.p_pos - s.o_pos) < COLLISION_RANGE THEN 1 ELSE 0

evaluate_state_fun(s, mode) ==
    LET w == Weights(mode)
    IN (w.progress * s.p_pos * 10) \div (TRACK_LENGTH \div 100000)
       + (w.speed * s.p_speed * 10000) \div (BoostCeiling \div 100)
       + (w.lead * (s.p_pos - s.o_pos) * 10) \div (TRACK_LENGTH \div 100000)
       + w.health * s.p_health * 1000
       + w.collision * collision(s) * 1000000
       + w.attack * attack_op(s) * 1000000

\* --- Opponent AI ---
\* the search window's 1e9: above every score
INF == 2000000000

max(a, b) == IF a > b THEN a ELSE b
min(a, b) == IF a < b THEN a ELSE b

\* the calls of evaluate_state_fun and of try_beep made so far and the
\* depth of the recursion below the node (plies), and with those of the
\* subtree r added
NoTally == [leaves |-> 0, beeps |-> 0, plies |-> 0]

Tally(n, r) ==
    [leaves |-> n.leaves + r.leaves, beeps |-> n.beeps + r.beeps,
     plies |-> max(n.plies, r.plies + 1)]

\* return v
Return(v, heap, n) ==
    [v |-> v, heap |-> heap, leaves |-> n.leaves, beeps |-> n.beeps, plies |-> n.plies]

\* the beeps of the tick that made a child, added to those of its subtree
WithBeeps(r, b) == [r EXCEPT !.beeps = r.beeps + b]

\* _alphabeta and its two loops over ACTIONS, from action i on with the
\* running value v; each returns the value, the heap it leaves, the numbers
\* of calls of evaluate_state_fun and of try_beep made and the depth the
\* recursion went to (n tallies these so far)
RECURSIVE alphabeta(_, _, _, _, _, _, _, _)
RECURSIVE MaxLoop(_, _, _, _, _, _, _, _, _, _)
RECURSIVE MinLoop(_, _, _, _, _, _, _, _, _, _)
RECURSIVE MaxCut(_, _, _, _, _, _, _, _, _, _)
RECURSIVE MinCut(_, _, _, _, _, _, _, _, _, _)

\* _alphabeta(child, ...) on the State a speculative tick returned
SearchChild(child, depth, alpha, beta, maximizing, mode, rnd) ==
    WithBeeps(alphabeta(child.heap, child.addr, depth, alpha, beta, maximizing, mode, rnd),
              child.beeps)

\* a recursion that goes on at depth 0 and stops one ply later
alphabeta_past_zero(heap, s, depth, alpha, beta, maximizing, mode, rnd) ==
    IF depth < 0 \/ is_terminal(Deref(heap, s))
    THEN [v |-> evaluate_state_fun(Deref(heap, s), mode), heap |-> heap, leaves |-> 1,
          beeps |-> 0, plies |-> 0]
    ELSE IF maximizing
         THEN MaxLoop(heap, s, depth, alpha, beta, mode, rnd, 1, -INF, NoTally)
         ELSE MinLoop(heap, s, depth, alpha, beta, mode, rnd, 1, INF, NoTally)

alphabeta(heap, s, depth, alpha, beta, maximizing, mode, rnd) ==
    IF depth = 0 \/ is_terminal(Deref(heap, s))
    THEN [v |-> evaluate_state_fun(Deref(heap, s), mode), heap |-> heap, leaves |-> 1,
          beeps |-> 0, plies |-> 0]
    ELSE IF maximizing
         THEN MaxLoop(heap, s, depth, alpha, beta, mode, rnd, 1, -INF, NoTally)
         ELSE MinLoop(heap, s, depth, alpha, beta, mode, rnd, 1, INF, NoTally)

\* the maximizing loop: the child of action i and its value r
MaxLoop(heap, s, depth, alpha, beta, mode, rnd, i, v, n) ==
    IF i > Len(ACTION_LIST) THEN Return(v, heap, n)
    ELSE MaxCut(SearchChild(simulate_one_tick(heap, s, ACTION_LIST[i], "MAINTAIN", rnd),
                            depth - 1, alpha, beta, FALSE, mode, rnd),
                s, depth, alpha, beta, mode, rnd, i, v, n)

\* a cutoff that compares the running value with alpha instead of alpha
\* with beta
MaxCutOnAlpha(r, s, depth, alpha, beta, mode, rnd, i, v, n) ==
    LET v1 == IF v > r.v THEN v ELSE r.v
        alpha1 == IF alpha > v1 THEN alpha ELSE v1
    IN IF v1 >= alpha THEN Return(v1, r.heap, Tally(n, r))
       ELSE MaxLoop(r.heap, s, depth, alpha1, beta, mode, rnd, i + 1, v1, Tally(n, r))

\* v = max(v, val); alpha = max(alpha, v); if alpha >= beta: break
MaxCut(r, s, depth, alpha, beta, mode, rnd, i, v, n) ==
    LET v1 == max(v, r.v)
        alpha1 == max(alpha, v1)
    IN IF alpha1 >= beta THEN Return(v1, r.heap, Tally(n, r))
       ELSE MaxLoop(r.heap, s, depth, alpha1, beta, mode, rnd, i + 1, v1, Tally(n, r))

\* the minimizing loop: the child of action i and its value r
MinLoop(heap, s, depth, alpha, beta, mode, rnd, i, v, n) ==
    IF i > Len(ACTION_LIST) THEN Return(v, heap, n)
    ELSE MinCut(SearchChild(simulate_one_tick(heap, s, "MAINTAIN", ACTION_LIST[i], rnd),
                            depth - 1, alpha, beta, TRUE, mode, rnd),
                s, depth, alpha, beta, mode, rnd, i, v, n)

\* v = min(v, val); beta = min(beta, v); if alpha >= beta: break
MinCut(r, s, depth, alpha, beta, mode, rnd, i, v, n) ==
    LET v1 == min(v, r.v)
        beta1 == min(beta, v1)
    IN IF alpha >= beta1 THEN Return(v1, r.heap, Tally(n, r))
       ELSE MinLoop(r.heap, s, depth, alpha, beta1, mode, rnd, i + 1, v1, Tally(n, r))

\* candidate_actions.sort(key=lambda a: 0 if a == "ATTACK" else 1): the
\* stable sort that moves ATTACK to the front
AttackFirst(order) ==
    SelectSeq(order, LAMBDA a : a = "ATTACK") \o SelectSeq(order, LAMBDA a : a # "ATTACK")

\* the depth the style searches to
SearchDepth(type) == IF type = "balanced" THEN DEPTH_BALANCED ELSE DEPTH_AGGRESSIVE

\* the root loop of opponent_choose_action over the candidates, from
\* candidate i on: the child of candidate i and its value r
RECURSIVE RootLoop(_, _, _, _, _, _, _, _, _, _)
RECURSIVE RootCut(_, _, _, _, _, _, _, _, _, _)
RootLoop(heap, state, depth, alpha, beta, mode, rnd, cand, i, best) ==
    IF i > Len(cand) THEN [best EXCEPT !.heap = heap]
    ELSE RootCut(SearchChild(simulate_one_tick(heap, state, "MAINTAIN", cand[i], rnd),
                             depth - 1, alpha, beta, TRUE, mode, rnd),
                 state, depth, alpha, beta, mode, rnd, cand, i, best)

\* a root loop in which a candidate of equal value replaces the best so far
RootCutLastWins(r, state, depth, alpha, beta, mode, rnd, cand, i, best) ==
    LET best1 == IF r.v <= best.best_val
                 THEN [best EXCEPT !.best_val = r.v, !.best_action = cand[i],
                                   !.leaves = best.leaves + r.leaves,
                                   !.beeps = best.beeps + r.beeps,
                                   !.plies = max(best.plies, r.plies + 1)]
                 ELSE [best EXCEPT !.leaves = best.leaves + r.leaves,
                                   !.beeps = best.beeps + r.beeps,
                                   !.plies = max(best.plies, r.plies + 1)]
        beta1 == min(beta, best1.best_val)
    IN IF alpha >= beta1 THEN [best1 EXCEPT !.heap = r.heap]
       ELSE RootLoop(r.heap, state, depth, alpha, beta1, mode, rnd, cand, i + 1, best1)

\* if val < best_val: ...; beta = min(beta, best_val); if alpha >= beta: break
RootCut(r, state, depth, alpha, beta, mode, rnd, cand, i, best) ==
    LET best1 == IF r.v < best.best_val
                 THEN [best EXCEPT !.best_val = r.v, !.best_action = cand[i],
                                   !.leaves = best.leaves + r.leaves,
                                   !.beeps = best.beeps + r.beeps,
                                   !.plies = max(best.plies, r.plies + 1)]
                 ELSE [best EXCEPT !.leaves = best.leaves + r.leaves,
                                   !.beeps = best.beeps + r.beeps,
                                   !.plies = max(best.plies, r.plies + 1)]
        beta1 == min(beta, best1.best_val)
    IN IF alpha >= beta1 THEN [best1 EXCEPT !.heap = r.heap]
       ELSE RootLoop(r.heap, state, depth, alpha, beta1, mode, rnd, cand, i + 1, best1)

\* candidate_actions: the shuffled ACTIONS, ATTACK moved to the front when
\* the player is in the lane within ATTACK_RANGE + 0.5
Candidates(st, order) ==
    IF st.o_lane = st.p_lane /\ abs(st.o_pos - st.p_pos) <= ATTACK_RANGE + 5000
    THEN AttackFirst(order) ELSE order

\* small chance to deviate for unpredictability
Override(best, ai) ==
    [best EXCEPT !.action = IF ai.override_roll < 10 THEN ai.choice ELSE best.best_action]

\* opponent_choose_action(state, opponent_type).  The draws of the call:
\* ai.attack_roll and ai.override_roll (random.random(), hundredths),
\* ai.choice (random.choice(ACTIONS)), ai.order (the shuffled ACTIONS) and
\* ai.rnd (the draws of the speculative ticks).  Returns the action, the
\* search's best action and value, the heap the call leaves, the numbers of
\* calls of evaluate_state_fun and of try_beep made and the depth the
\* recursion went to.
opponent_choose_action(heap, state, opponent_type, ai) ==
    LET st == Deref(heap, state)
    IN IF opponent_type = "random"
       THEN [action |-> IF st.o_lane = st.p_lane
                           /\ abs(st.o_pos - st.p_pos) <= ATTACK_RANGE + 7000
                        THEN (IF ai.attack_roll < 50 THEN "ATTACK" ELSE ai.choice)
                        ELSE ai.choice,
             best_action |-> "MAINTAIN", best_val |-> INF, heap |-> heap, leaves |-> 0,
             beeps |-> 0, plies |-> 0]
       ELSE Override(RootLoop(heap, state, SearchDepth(opponent_type), -INF, INF,
                              opponent_type, ai.rnd, Candidates(st, ai.order), 1,
                              [action |-> "MAINTAIN", best_action |-> "MAINTAIN",
                               best_val |-> INF, heap |-> heap, leaves |-> 0,
                               beeps |-> 0, plies |-> 0]),
                     ai)

\* --- Game loop ---
VARIABLES
    s,              \* game_loop's s: the authoritative State (its values)
    opponent_type,  \* "aggressive", "balanced" or "random"
    over,           \* is_terminal(s) held after a tick: the game-over screen
    last_actions,   \* game_loop's last_actions
    steps,          \* the iterations of the loop taken so far
    phase,          \* "start", "ticked" (a tick was applied), "chosen" (a search)
    rnd_used,       \* the draws of the last tick
    inp,            \* the State passed to the last simulate_one_tick, before the call
    inp_after,      \* the same State object, read after the call returned
    replay,         \* what a second call on that object with the same draws returned
    chosen,         \* what the last opponent_choose_action returned and left behind
    p_attacks,      \* the ticks at which p_last_attack_tick was updated
    o_attacks,      \* the ticks at which o_last_attack_tick was updated
    winner,         \* the winner shown on the game-over screen, "-" before it
    beeps,          \* the calls of try_beep of the last call or iteration, by caller
    misses          \* the ticks at which a last-attack tick was updated and nothing hit

vars == <<s, opponent_type, over, last_actions, steps, phase, rnd_used, inp, inp_after,
          replay, chosen, p_attacks, o_attacks, winner, beeps, misses>>

\* --- The draws of random ---
\* One record holds the draws of one tick, by call site and loop index.
Tape(drift_roll, drift_dir, jitter, o_roll, n_roll, slip, dmg) ==
    [drift_roll |-> [i \in 1..NEUTRAL_COUNT |-> drift_roll],
     drift_dir |-> [i \in 1..NEUTRAL_COUNT |-> IF i % 2 = 1 THEN drift_dir ELSE -drift_dir],
     jitter |-> [i \in 1..NEUTRAL_COUNT |-> jitter],
     o_hz_roll |-> [h \in 1..HAZARD_COUNT |-> o_roll],
     o_hz_slip |-> [h \in 1..HAZARD_COUNT |-> slip],
     o_hz_dmg |-> [h \in 1..HAZARD_COUNT |-> dmg],
     n_hz_roll |-> [h \in 1..HAZARD_COUNT |->
                      [i \in 1..NEUTRAL_COUNT |-> IF i % 2 = 1 THEN n_roll ELSE 99 - n_roll]],
     n_hz_slip |-> [h \in 1..HAZARD_COUNT |-> [i \in 1..NEUTRAL_COUNT |-> slip]],
     n_hz_dmg |-> [h \in 1..HAZARD_COUNT |-> [i \in 1..NEUTRAL_COUNT |-> dmg]]]

\* no random event; every hazard roll succeeds; the neutrals drift
QuietTape == Tape(99, 0, 0, 99, 99, 50, 50)
HitTape == Tape(99, 0, 8, 0, 0, 99, 99)
DriftTape == Tape(0, -1, -8, 0, 99, 0, 0)

Tapes == {QuietTape, HitTape, DriftTape}

\* --- Session states ---
\* hazards and neutrals far from both combatants
FarHazards == [h \in 1..HAZARD_COUNT |->
                 <<1500000 + 40000 * h, h % LANES, IF h % 2 = 0 THEN "oil" ELSE "pothole">>]
FarNeutrals == [i \in 1..NEUTRAL_COUNT |->
                  [Neutral(1200000 + 50000 * i, i % LANES, 200 + 100 * i, 600 + 70 * i, i)
                     EXCEPT !.tick_last_dir = 0]]

\* the state game_loop constructs: the fixed initial pose, hazards from
\* position 20.0 and neutrals from position 10.0 on
InitialPose ==
    State(0, 300, 1, MAX_HEALTH, 60000, 350, 1, 800, 0, NEVER_ATTACKED, NEVER_ATTACKED,
          TRUE, 0,
          [h \in 1..HAZARD_COUNT |->
              <<200000 + 250000 * (h - 1), h % LANES, IF h % 2 = 0 THEN "oil" ELSE "pothole">>],
          [i \in 1..NEUTRAL_COUNT |->
              Neutral(100000 + 300000 * (i - 1), i % LANES, 200 + 100 * i, 600 + 70 * i, i)])

\* tick 100, a melee in lane 1: the player (health 0.3) attacked at tick
\* 99 and hit the opponent (health 0.2) 2.0 ahead; a hazard ahead of each
\* of them that this tick brings into proximity, neutral 1 beside the
\* player and neutral 2 beside the opponent
Melee ==
    [State(500000, 800, 1, 300, 520000, 800, 1, 200, 100, 99, NEVER_ATTACKED, TRUE, 0,
           [h \in 1..HAZARD_COUNT |->
               IF h = 1 THEN <<525000, 1, "oil">>
               ELSE IF h = 2 THEN <<540000, 1, "pothole">>
               ELSE FarHazards[h]],
           [i \in 1..NEUTRAL_COUNT |->
               IF i = 1 THEN [Neutral(507000, 1, 600, 250, 1) EXCEPT !.tick_last_dir = 90]
               ELSE IF i = 2 THEN [Neutral(527000, 1, 400, 900, 2) EXCEPT !.tick_last_dir = 98]
               ELSE FarNeutrals[i]])
       EXCEPT !.last_hit_by_player = TRUE, !.attack_animation = <<"P", 1, 1, 4>>]

\* tick 40, a duel in lane 1 with the road clear: the opponent 2.0 ahead at
\* the same speed, neither has attacked yet
Duel ==
    State(200000, 600, 1, MAX_HEALTH, 220000, 600, 1, 800, 40, NEVER_ATTACKED,
          NEVER_ATTACKED, TRUE, 0, FarHazards, FarNeutrals)

\* tick 60, the last tick of the boost, the player at 17.78 above MAX_SPEED
BoostEnding ==
    State(900000, 1778, 0, 900, 930000, 1000, 2, 600, 60, NEVER_ATTACKED, 50, FALSE, 1,
          FarHazards, FarNeutrals)

\* tick 1500, both in lane 0 one tick from the finish line: the opponent
\* (health 0.2) reaches TRACK_LENGTH exactly when it keeps its speed
NearFinish ==
    State(2190000, 700, 0, 500, 2195800, 300, 0, 200, 1500, 1200, 1495, FALSE, 0,
          FarHazards, FarNeutrals)

\* tick 1490, level in lanes 0 and 2 at the same speed one tick from the
\* finish line, which both reach exactly when they keep their speed
DeadHeat ==
    State(2195800, 300, 0, 500, 2195800, 300, 2, 400, 1490, NEVER_ATTACKED, NEVER_ATTACKED,
          TRUE, 0, FarHazards, FarNeutrals)

\* tick 200, the combatants on a clear stretch; neutral 3, down to 0.6 after
\* running into hazards, is crawling up to the hazard at 162.0 in its lane
Backmarker ==
    State(700000, 900, 1, 800, 730000, 900, 2, 700, 200, NEVER_ATTACKED, NEVER_ATTACKED,
          TRUE, 0, FarHazards,
          [i \in 1..NEUTRAL_COUNT |->
              IF i = 3 THEN [Neutral(1618000, 0, 60, 500, 3) EXCEPT !.tick_last_dir = 190]
              ELSE FarNeutrals[i]])

\* tick 300, the player in lane 0 in a pack of neutrals, the opponent level
\* with it in lane 2: neutral 1, knocked out, rides beside the player;
\* neutrals 2 (health 0.2) and 3 are ahead of the player within attack range;
\* neutral 4 rides beside the opponent and neutral 5 ahead of it in range
Pack ==
    State(1000000, 600, 0, 900, 1010000, 600, 2, 700, 300, NEVER_ATTACKED, NEVER_ATTACKED,
          TRUE, 0, FarHazards,
          [i \in 1..NEUTRAL_COUNT |->
              [Neutral(<<1004000, 1020000, 1030000, 1015000, 1040000>>[i],
                       <<0, 0, 0, 2, 2>>[i],
                       <<300, 400, 500, 600, 500>>[i],
                       <<0, 200, 900, 800, 500>>[i], i)
                 EXCEPT !.tick_last_dir = 298]])

\* tick 500, a showdown in lane 1: the opponent (health 0.2) 2.0 ahead of
\* the player at the same speed, neutral 1 between them, neither has
\* attacked for a long time
Showdown ==
    State(1100000, 700, 1, 900, 1120000, 700, 1, 200, 500, 400, 450, FALSE, 0, FarHazards,
          [i \in 1..NEUTRAL_COUNT |->
              IF i = 1 THEN [Neutral(1110000, 1, 700, 600, 1) EXCEPT !.tick_last_dir = 498]
              ELSE FarNeutrals[i]])

\* the neutrals late in a session, long past the finish line
GoneNeutrals == [i \in 1..NEUTRAL_COUNT |->
                   [Neutral(9000000 + 50000 * i, i % LANES, 200 + 100 * i, 600 + 70 * i, i)
                      EXCEPT !.tick_last_dir = 6900]]

\* both standing still at the tick bound
Standstill(tick) ==
    State(400000, 0, 0, 700, 450000, 0, 2, 600, tick, NEVER_ATTACKED, NEVER_ATTACKED,
          TRUE, 0, FarHazards, GoneNeutrals)

SessionStates ==
    {InitialPose, Melee, Duel, BoostEnding, NearFinish, DeadHeat, Backmarker, Pack,
     Showdown, Standstill(MAX_TICKS - 1), Standstill(MAX_TICKS)}

\* --- Inputs ---
\* KEY_MAP's values: the six actions and BOOST
Keys == ActionSet \cup {"BOOST"}

\* the draws of opponent_choose_action, random style
RandomAi == {[attack_roll |-> 99, override_roll |-> 99, choice |-> a,
              order |-> ACTION_LIST, rnd |-> QuietTape] : a \in ActionSet}
            \cup {[attack_roll |-> 0, override_roll |-> 99, choice |-> "MAINTAIN",
                   order |-> ACTION_LIST, rnd |-> QuietTape]}

NoChoice == [action |-> "-", best_action |-> "-", best_val |-> INF, root_after |-> <<>>,
             rnd |-> QuietTape, leaves |-> 0, plies |-> 0, order |-> ACTION_LIST,
             override_roll |-> 99]

\* try_beep called by the speculative ticks of the search, by the
\* authoritative tick and by game_loop itself (lines 605, 609)
Silence == [search |-> 0, tick |-> 0, loop |-> 0]

InitWith(states, types) ==
    /\ s \in states
    /\ opponent_type \in types
    /\ over = FALSE
    /\ last_actions = [you |-> "-", opp |-> "-"]
    /\ steps = 0
    /\ phase = "start"
    /\ rnd_used = QuietTape
    /\ inp = s
    /\ inp_after = s
    /\ replay = s
    /\ chosen = NoChoice
    /\ p_attacks = {s.p_last_attack_tick} \ {NEVER_ATTACKED}
    /\ o_attacks = {s.o_last_attack_tick} \ {NEVER_ATTACKED}
    /\ winner = "-"
    /\ beeps = Silence
    /\ misses = [p |-> {}, o |-> {}]

\* what one iteration leaves: the State simulate_one_tick returned (r), the
\* State it was given before and after the call, and what a second call on
\* it with the same actions and draws returns
Outcome(h0, ch, h1, pa, rnd, r, ai) ==
    [s |-> Returned(r),
     inp |-> Deref(h1, h0.addr),
     inp_after |-> Deref(r.heap, h0.addr),
     replay |-> Returned(simulate_one_tick(r.heap, h0.addr, pa, ch.action, rnd)),
     chosen |-> [action |-> ch.action, best_action |-> ch.best_action,
                 best_val |-> ch.best_val, root_after |-> Deref(ch.heap, h0.addr),
                 rnd |-> ai.rnd, leaves |-> ch.leaves, plies |-> ch.plies,
                 order |-> ai.order, override_roll |-> ai.override_roll],
     last_actions |-> [you |-> pa, opp |-> ch.action],
     beeps |-> [search |-> ch.beeps, tick |-> r.beeps, loop |-> BeepsOfTick(r.heap[r.addr])]]

\* advance world: s = simulate_one_tick(s, pa, oa)
AdvanceWorld(h0, ch, h1, pa, rnd, ai) ==
    Outcome(h0, ch, h1, pa, rnd, simulate_one_tick(h1, h0.addr, pa, ch.action, rnd), ai)

\* a BOOST key that starts the countdown without using the boost up
PlayerActionRearms(h0, ch, key, rnd, ai) ==
    AdvanceWorld(h0, ch,
                 IF key = "BOOST" /\ ch.heap[h0.addr].p_boost_avail
                 THEN [ch.heap EXCEPT ![h0.addr].p_boost_ticks_left = BOOST_DURATION_TICKS]
                 ELSE ch.heap,
                 IF key = "BOOST" THEN "MAINTAIN" ELSE key,
                 rnd, ai)

\* player action: the key mapped to BOOST starts the boost when available
\* and leaves the action MAINTAIN; any other key is the action
PlayerAction(h0, ch, key, rnd, ai) ==
    AdvanceWorld(h0, ch,
                 IF key = "BOOST" /\ ch.heap[h0.addr].p_boost_avail
                 THEN [ch.heap EXCEPT ![h0.addr].p_boost_avail = FALSE,
                                      ![h0.addr].p_boost_ticks_left = BOOST_DURATION_TICKS]
                 ELSE ch.heap,
                 IF key = "BOOST" THEN "MAINTAIN" ELSE key,
                 rnd, ai)

\* opponent action: oa = opponent_choose_action(s, opponent_type)
OpponentAction(h0, type, key, ai, rnd) ==
    PlayerAction(h0, opponent_choose_action(h0.heap, h0.addr, type, ai), key, rnd, ai)

\* one iteration of game_loop's tick branch on the State cur: the
\* opponent's action, the player's key (BOOST consumed before the tick),
\* simulate_one_tick.  Returns the new State with what the calls were given
\* and what they left behind.
LoopIteration(cur, type, key, ai, rnd) ==
    OpponentAction(NewState(<<>>, cur), type, key, ai, rnd)

GameTick(key, ai, rnd) ==
    /\ ~over
    /\ \E it \in {LoopIteration(s, opponent_type, key, ai, rnd)} :
          /\ s' = it.s
          /\ inp' = it.inp
          /\ inp_after' = it.inp_after
          /\ replay' = it.replay
          /\ chosen' = it.chosen
          /\ last_actions' = it.last_actions
          /\ beeps' = it.beeps
          /\ over' = is_terminal(it.s)
          /\ winner' = IF is_terminal(it.s) THEN Winner(it.s) ELSE winner
          /\ p_attacks' = IF it.s.p_last_attack_tick # it.inp.p_last_attack_tick
                          THEN p_attacks \cup {it.inp.tick} ELSE p_attacks
          /\ o_attacks' = IF it.s.o_last_attack_tick # it.inp.o_last_attack_tick
                          THEN o_attacks \cup {it.inp.tick} ELSE o_attacks
          /\ misses' = [p |-> IF it.s.p_last_attack_tick # it.inp.p_last_attack_tick
                                 /\ ~it.s.last_hit_by_player
                              THEN misses.p \cup {it.inp.tick} ELSE misses.p,
                        o |-> IF it.s.o_last_attack_tick # it.inp.o_last_attack_tick
                                 /\ ~it.s.last_hit_by_opponent
                              THEN misses.o \cup {it.inp.tick} ELSE misses.o]
    /\ rnd_used' = rnd
    /\ steps' = steps + 1
    /\ phase' = "ticked"
    /\ UNCHANGED opponent_type

\* opponent_choose_action applied to the session state, as game_loop calls it
ChooseAction(ai) ==
    /\ phase = "start"
    /\ \E h0 \in {NewState(<<>>, s)} :
         \E ch \in {opponent_choose_action(h0.heap, h0.addr, opponent_type, ai)} :
            /\ chosen' = [action |-> ch.action, best_action |-> ch.best_action,
                          best_val |-> ch.best_val, root_after |-> Deref(ch.heap, h0.addr),
                          rnd |-> ai.rnd, leaves |-> ch.leaves, plies |-> ch.plies,
                          order |-> ai.order, override_roll |-> ai.override_roll]
            /\ beeps' = [search |-> ch.beeps, tick |-> 0, loop |-> 0]
    /\ phase' = "chosen"
    /\ UNCHANGED <<s, opponent_type, over, last_actions, steps, rnd_used, inp, inp_after,
                   replay, p_attacks, o_attacks, winner, misses>>

\* simulate_one_tick applied to the session state with the actions pa, oa
ApplyTick(pa, oa, rnd) ==
    /\ phase = "start"
    /\ \E h0 \in {NewState(<<>>, s)} :
         \E r \in {simulate_one_tick(h0.heap, h0.addr, pa, oa, rnd)} :
            /\ s' = Returned(r)
            /\ inp' = s
            /\ inp_after' = Deref(r.heap, h0.addr)
            /\ replay' = Returned(simulate_one_tick(r.heap, h0.addr, pa, oa, rnd))
            /\ beeps' = [search |-> 0, tick |-> r.beeps, loop |-> 0]
    /\ last_actions' = [you |-> pa, opp |-> oa]
    /\ rnd_used' = rnd
    /\ phase' = "ticked"
    /\ UNCHANGED <<opponent_type, over, steps, chosen, p_attacks, o_attacks, winner, misses>>

\* the draws of opponent_choose_action, searching styles: two shuffles, and
\* the final override firing or not
SearchAi == {[attack_roll |-> 99, override_roll |-> 50, choice |-> "MAINTAIN",
              order |-> ACTION_LIST, rnd |-> QuietTape],
             [attack_roll |-> 99, override_roll |-> 50, choice |-> "MAINTAIN",
              order |-> <<"MAINTAIN", "RIGHT", "ATTACK", "BRAKE", "LEFT", "ACCEL">>,
              rnd |-> HitTape],
             [attack_roll |-> 99, override_roll |-> 5, choice |-> "BRAKE",
              order |-> <<"LEFT", "ACCEL", "MAINTAIN", "ATTACK", "RIGHT", "BRAKE">>,
              rnd |-> QuietTape]}

InitSearch == InitWith(SessionStates, {"balanced", "aggressive"})

NextSearch == \/ \E ai \in SearchAi : ChooseAction(ai)
              \/ \E pa \in ActionSet, oa \in ActionSet : ApplyTick(pa, oa, HitTape)

SpecSearch == InitSearch /\ [][NextSearch]_vars

\* --- Calls with arguments of any value ---
\* simulate_one_tick takes pa and oa as strings and opponent_choose_action
\* and evaluate_state_fun take the style as a string: the six actions and
\* one string that is none of them, the three styles and one string that is
\* none of them
AnyAction == ActionSet \cup {"JUMP"}

Styles == {"aggressive", "balanced", "random"}

AnyStyle == {"balanced", "random", "defensive"}

InitAnyCall == InitWith({Duel, Melee}, AnyStyle)

NextAnyCall == \/ \E ai \in SearchAi : ChooseAction(ai)
               \/ \E pa \in AnyAction, oa \in AnyAction : ApplyTick(pa, oa, QuietTape)

SpecAnyCall == InitAnyCall /\ [][NextAnyCall]_vars

\* --- A duel: both combatants keep their speed and lane and attack at will ---
DuelKeys == {"ATTACK", "MAINTAIN"}

DuelAi == {[attack_roll |-> 99, override_roll |-> 99, choice |-> a,
            order |-> ACTION_LIST, rnd |-> QuietTape] : a \in DuelKeys}

\* the number of ticks of the duel explored
MaxDuelTicks == 13

InitDuel == InitWith({Duel}, {"random"})

NextDuel == /\ steps < MaxDuelTicks
            /\ \E key \in DuelKeys, ai \in DuelAi : GameTick(key, ai, QuietTape)

SpecDuel == InitDuel /\ [][NextDuel]_vars

\* --- A chase: the player attacks from the next lane and moves over ---
\* tick 20, the player in lane 0 and the opponent 1.0 ahead of it in lane 1
\* at the same speed, the road clear, neither has attacked yet
Apart ==
    State(300000, 600, 0, MAX_HEALTH, 310000, 600, 1, 800, 20, NEVER_ATTACKED,
          NEVER_ATTACKED, TRUE, 0, FarHazards, FarNeutrals)

ChaseKeys == {"ATTACK", "RIGHT"}

\* the number of ticks of the chase explored: the cooldown and one tick more
MaxChaseTicks == 13

InitChase == InitWith({Apart}, {"random"})

NextChase == /\ steps < MaxChaseTicks
             /\ \E key \in ChaseKeys, ai \in DuelAi : GameTick(key, ai, QuietTape)

SpecChase == InitChase /\ [][NextChase]_vars

\* --- A boost: the player at full speed with the boost still available ---
\* tick 300, the player at MAX_SPEED in lane 0, the opponent in lane 2, the
\* road ahead of both clear
Cruising ==
    State(600000, MAX_SPEED, 0, 900, 640000, 1000, 2, 700, 300, NEVER_ATTACKED,
          NEVER_ATTACKED, TRUE, 0, FarHazards, FarNeutrals)

BoostKeys == {"BOOST", "ACCEL"}

BoostAi == {[attack_roll |-> 99, override_roll |-> 99, choice |-> "MAINTAIN",
             order |-> ACTION_LIST, rnd |-> QuietTape]}

\* the number of ticks explored: the boost's duration and one tick more
MaxBoostTicks == 15

InitBoost == InitWith({Cruising}, {"random"})

NextBoost == /\ steps < MaxBoostTicks
             /\ \E key \in BoostKeys, ai \in BoostAi : GameTick(key, ai, QuietTape)

SpecBoost == InitBoost /\ [][NextBoost]_vars

\* --- A whole session: both combatants stand still until the tick bound ---
\* tick 5 of a session in which both braked from the initial pose until they
\* stood: the player at 0.7, the opponent at 6.98, the neutrals five quiet
\* ticks on from where they were spawned
Stopped ==
    State(7000, 0, 1, MAX_HEALTH, 69800, 0, 1, 800, 5, NEVER_ATTACKED, NEVER_ATTACKED,
          TRUE, 0, InitialPose.hazards,
          [i \in 1..NEUTRAL_COUNT |->
              Neutral(100000 + 300000 * (i - 1) + 5 * TICK * (200 + 100 * i), i % LANES,
                      200 + 100 * i, 600 + 70 * i, i)])

\* the keys and the opponent's choices that keep a standing rider standing
SessionKeys == {"BRAKE", "MAINTAIN"}

SessionAi == {[attack_roll |-> 99, override_roll |-> 99, choice |-> "MAINTAIN",
               order |-> ACTION_LIST, rnd |-> QuietTape]}

InitSession == InitWith({Stopped, Standstill(MAX_TICKS)}, {"random"})

\* game_loop runs its tick branch until is_terminal holds; no bound on the
\* number of iterations is assumed
NextSession == \E key \in SessionKeys, ai \in SessionAi : GameTick(key, ai, QuietTape)

SpecSession == InitSession /\ [][NextSession]_vars

\* an iteration of the tick branch: possible exactly while the game-over
\* screen is not up, and counted by steps
LoopRuns == ~over /\ steps' = steps + 1

\* the loop keeps iterating: a tick that is due is eventually taken
SpecSessionFair == SpecSession /\ WF_steps(LoopRuns)

\* the number of loop iterations explored from a session state
MaxSteps == 1

Init == InitWith(SessionStates, {"random"})

Next == /\ steps < MaxSteps
        /\ \E key \in Keys, ai \in RandomAi, rnd \in Tapes : GameTick(key, ai, rnd)

Spec == Init /\ [][Next]_vars

\* --- Properties ---
Healths(st) == [i \in 1..Len(st.neutrals) |-> st.neutrals[i].health]

\* C1: the state a tick returns has both combatants' and every neutral's
\* health in [0, 1], the opponent's speed in [0, MAX_SPEED], and the
\* player's speed in [0, MAX_SPEED] when no boost tick is left and in
\* [0, MAX_SPEED * BOOST_SPEED_MULT] otherwise.
C1_RangesAfterTick ==
    phase = "ticked" =>
        /\ s.p_health >= 0 /\ s.p_health <= MAX_HEALTH
        /\ s.o_health >= 0 /\ s.o_health <= MAX_HEALTH
        /\ \A i \in 1..Len(s.neutrals) :
              s.neutrals[i].health >= 0 /\ s.neutrals[i].health <= MAX_HEALTH
        /\ s.o_speed >= 0 /\ s.o_speed <= MAX_SPEED
        /\ s.p_speed >= 0
        /\ s.p_speed <= (IF s.p_boost_ticks_left = 0 THEN MAX_SPEED ELSE BoostCeiling)

\* the boost ran out in this tick with the player above MAX_SPEED
C1_BoostRanOut ==
    /\ phase = "ticked"
    /\ inp.p_boost_ticks_left = 1 /\ inp.p_speed > MAX_SPEED
    /\ s.p_boost_ticks_left = 0 /\ s.p_speed = MAX_SPEED

\* C5: is_terminal is true exactly when a health is <= 0, a position is
\* >= TRACK_LENGTH or the tick is > 7000.
C5_TerminalIff ==
    phase = "ticked" =>
        (over <=> (\/ s.p_health <= 0
                   \/ s.o_health <= 0
                   \/ s.p_pos >= TRACK_LENGTH
                   \/ s.o_pos >= TRACK_LENGTH
                   \/ s.tick > 7000))

\* the tick bound decides alone: healths positive, positions short of the line
C5_AtTheBounds ==
    /\ phase = "ticked" /\ over
    /\ s.tick = 7001
    /\ s.p_health > 0 /\ s.o_health > 0
    /\ s.p_pos < TRACK_LENGTH /\ s.o_pos < TRACK_LENGTH

\* C6: the state a tick returns has the tick of its input plus one.
C6_TickPlusOne == phase = "ticked" => s.tick = inp.tick + 1

\* a tick was applied to a state in the middle of a session
C6_Ticked == phase = "ticked" /\ inp.tick = 100 /\ s.tick = 101

\* C8: a second application of the tick to the same state with the same
\* actions and the same draws returns a state equal to the first's in every
\* field.
C8_SameDrawsSameState == phase = "ticked" => replay = s

\* the tick replayed consumed random events: a hazard hit the opponent
C8_ReplayedWithDraws ==
    /\ phase = "ticked"
    /\ s.last_hazard_hit_opponent
    /\ replay.last_hazard_hit_opponent
    /\ replay.o_health = s.o_health /\ s.o_health < inp.o_health

\* the player's, the opponent's Attack of the last tick was on cooldown
PlayerOnCooldown ==
    /\ phase = "ticked" /\ last_actions.you = "ATTACK"
    /\ inp.tick - inp.p_last_attack_tick < ATTACK_COOLDOWN_TICKS

OpponentOnCooldown ==
    /\ phase = "ticked" /\ last_actions.opp = "ATTACK"
    /\ inp.tick - inp.o_last_attack_tick < ATTACK_COOLDOWN_TICKS

\* C3 as stated: in a step where a combatant's Attack is on cooldown no
\* health value changes and no hit flag is set.
C3_NoChangeInStep ==
    (PlayerOnCooldown \/ OpponentOnCooldown) =>
        /\ s.p_health = inp.p_health /\ s.o_health = inp.o_health
        /\ Healths(s) = Healths(inp)
        /\ ~s.last_hit_by_player /\ ~s.last_hit_by_opponent

\* C3: an Attack on cooldown has no effect of its own: the step returns the
\* state it returns with Maintain in the Attack's place, so it changes no
\* health, records no last-attack tick, and leaves the attacker's hit flag
\* clear; healths change in such a step only by hazards, bumps and the other
\* combatant's attack.
C3_CooldownAttackIsMaintain ==
    /\ PlayerOnCooldown =>
          /\ s = TickBody(inp, "MAINTAIN", last_actions.opp, rnd_used)
          /\ ~s.last_hit_by_player
          /\ s.p_last_attack_tick = inp.p_last_attack_tick
    /\ OpponentOnCooldown =>
          /\ s = TickBody(inp, last_actions.you, "MAINTAIN", rnd_used)
          /\ ~s.last_hit_by_opponent
          /\ s.o_last_attack_tick = inp.o_last_attack_tick

\* the player repeats Attack on the tick after a successful Attack, the
\* opponent still in the lane and in range
C3_RepeatedAttack ==
    /\ PlayerOnCooldown
    /\ inp.p_last_attack_tick = inp.tick - 1 /\ inp.last_hit_by_player
    /\ s.p_lane = s.o_lane /\ abs(s.p_pos - s.o_pos) <= ATTACK_RANGE
    /\ ~s.last_hit_by_player

\* a live neutral bumps the combatant at pos in lane
Bumped(st, pos, lane) ==
    \E i \in 1..Len(st.neutrals) :
        /\ st.neutrals[i].health > 0
        /\ st.neutrals[i].lane = lane
        /\ abs(st.neutrals[i].pos - pos) < BUMP_DISTANCE

\* the player's, the opponent's Attack of the last tick was off cooldown with
\* the other combatant in the lane and in range after the movement
PlayerStrikes ==
    /\ phase = "ticked" /\ last_actions.you = "ATTACK"
    /\ inp.tick - inp.p_last_attack_tick >= ATTACK_COOLDOWN_TICKS
    /\ s.p_lane = s.o_lane /\ abs(s.p_pos - s.o_pos) <= ATTACK_RANGE

OpponentStrikes ==
    /\ phase = "ticked" /\ last_actions.opp = "ATTACK"
    /\ inp.tick - inp.o_last_attack_tick >= ATTACK_COOLDOWN_TICKS
    /\ s.p_lane = s.o_lane /\ abs(s.p_pos - s.o_pos) <= ATTACK_RANGE

\* C9 as stated: the target's health after the step is its health before
\* minus ATTACK_DAMAGE, clamped at 0; the hit flag is set and the attacker's
\* last-attack tick is the tick the step began at.
C9_ExactDamageInStep ==
    /\ PlayerStrikes =>
          /\ s.o_health = clamp(inp.o_health - ATTACK_DAMAGE, 0, MAX_HEALTH)
          /\ s.last_hit_by_player
          /\ s.p_last_attack_tick = inp.tick
    /\ OpponentStrikes =>
          /\ s.p_health = clamp(inp.p_health - ATTACK_DAMAGE, 0, MAX_HEALTH)
          /\ s.last_hit_by_opponent
          /\ s.o_last_attack_tick = inp.tick

\* C9: an Attack off cooldown with the other combatant in the lane and in
\* range sets the hit flag and the attacker's last-attack tick to the tick the
\* step began at, and takes ATTACK_DAMAGE (clamped at 0) from the target: the
\* target's health after the step is exactly that when no hazard hits and no
\* neutral bumps the target in the step, and never above it.
C9_AttackLands ==
    /\ PlayerStrikes =>
          /\ s.last_hit_by_player
          /\ s.p_last_attack_tick = inp.tick
          /\ s.o_health <= clamp(inp.o_health - ATTACK_DAMAGE, 0, MAX_HEALTH)
          /\ (~s.last_hazard_hit_opponent /\ ~Bumped(s, s.o_pos, s.o_lane)) =>
                s.o_health = clamp(inp.o_health - ATTACK_DAMAGE, 0, MAX_HEALTH)
    /\ OpponentStrikes =>
          /\ s.last_hit_by_opponent
          /\ s.o_last_attack_tick = inp.tick
          /\ s.p_health <= clamp(inp.p_health - ATTACK_DAMAGE, 0, MAX_HEALTH)
          /\ (~s.last_hazard_hit_player /\ ~Bumped(s, s.p_pos, s.p_lane)) =>
                s.p_health = clamp(inp.p_health - ATTACK_DAMAGE, 0, MAX_HEALTH)

\* the player's attack lands on the opponent on a clear road
C9_PlayerHits ==
    /\ PlayerStrikes
    /\ ~s.last_hazard_hit_opponent /\ ~Bumped(s, s.o_pos, s.o_lane)
    /\ inp.o_health > ATTACK_DAMAGE
    /\ s.o_health = inp.o_health - ATTACK_DAMAGE
    /\ s.last_hit_by_player /\ s.p_last_attack_tick = inp.tick

\* both issued Maintain; no hazard is in proximity of either combatant and
\* no live neutral is within the bump distance of either
QuietMaintain ==
    /\ phase = "ticked"
    /\ last_actions.you = "MAINTAIN" /\ last_actions.opp = "MAINTAIN"
    /\ ~s.last_hazard_hit_player /\ ~s.last_hazard_hit_opponent
    /\ \A h \in 1..Len(s.hazards) :
          /\ ~HazardNear(s.hazards[h], s.p_pos, s.p_lane, s.p_speed)
          /\ ~HazardNear(s.hazards[h], s.o_pos, s.o_lane, s.o_speed)
    /\ ~Bumped(s, s.p_pos, s.p_lane) /\ ~Bumped(s, s.o_pos, s.o_lane)

\* C10 as stated: such a step advances each position by speed * dt and leaves
\* both speeds, both lanes and both healths unchanged, with tick + 1.
C10_MaintainKeepsSpeeds ==
    QuietMaintain =>
        /\ s.p_pos = inp.p_pos + inp.p_speed * TICK
        /\ s.o_pos = inp.o_pos + inp.o_speed * TICK
        /\ s.p_speed = inp.p_speed /\ s.o_speed = inp.o_speed
        /\ s.p_lane = inp.p_lane /\ s.o_lane = inp.o_lane
        /\ s.p_health = inp.p_health /\ s.o_health = inp.o_health
        /\ s.tick = inp.tick + 1

\* C10: such a step advances each position by speed * dt, leaves both lanes,
\* both healths and the opponent's speed unchanged and increments tick; the
\* player's speed is unchanged unless the boost runs out in this step, when
\* it is cut down to MAX_SPEED.
C10_MaintainStep ==
    QuietMaintain =>
        /\ s.p_pos = inp.p_pos + inp.p_speed * TICK
        /\ s.o_pos = inp.o_pos + inp.o_speed * TICK
        /\ s.o_speed = inp.o_speed
        /\ s.p_speed = (IF inp.p_boost_ticks_left = 1 /\ inp.p_speed > MAX_SPEED
                        THEN MAX_SPEED ELSE inp.p_speed)
        /\ s.p_lane = inp.p_lane /\ s.o_lane = inp.o_lane
        /\ s.p_health = inp.p_health /\ s.o_health = inp.o_health
        /\ s.tick = inp.tick + 1

\* the scenario: from 0 / 3.0 and 6.0 / 3.5 to 0.42 and 6.49, healths 1.0 and
\* 0.8, tick 1
C10_FromInitialPose ==
    /\ QuietMaintain
    /\ inp.p_pos = 0 /\ inp.p_speed = 300 /\ inp.o_pos = 60000 /\ inp.o_speed = 350
    /\ s.p_pos = 4200 /\ s.o_pos = 64900
    /\ s.p_speed = 300 /\ s.o_speed = 350
    /\ s.p_health = 1000 /\ s.o_health = 800
    /\ s.tick = 1

\* C2: no call modifies its input: the State passed to simulate_one_tick,
\* read after the call, and the State passed to opponent_choose_action, read
\* after the search, equal their values before the call in every field, the
\* hazard list and every neutral included.
C2_InputUntouched ==
    /\ phase = "ticked" => inp_after = inp
    /\ phase = "chosen" => chosen.root_after = s

\* a search returned from the melee, where the speculative ticks hit
\* neutrals and hazards, and left the root as it was
C2_SearchedTheMelee ==
    /\ phase = "chosen"
    /\ opponent_type = "aggressive"
    /\ chosen.leaves > 1
    /\ s.tick = 100
    /\ chosen.root_after.neutrals = s.neutrals
    /\ chosen.root_after.hazards = s.hazards

SetMax(S) == CHOOSE x \in S : \A y \in S : y <= x
SetMin(S) == CHOOSE x \in S : \A y \in S : x <= y

\* the unpruned depth-limited minimax over the tree _alphabeta walks: the
\* player's action at a maximizing node, the opponent's at a minimizing one
RECURSIVE Minimax(_, _, _, _, _)
Minimax(st, depth, maximizing, mode, rnd) ==
    IF depth = 0 \/ is_terminal(st) THEN evaluate_state_fun(st, mode)
    ELSE IF maximizing
         THEN SetMax({Minimax(TickBody(st, a, "MAINTAIN", rnd), depth - 1, FALSE, mode, rnd) :
                         a \in ActionSet})
         ELSE SetMin({Minimax(TickBody(st, "MAINTAIN", a, rnd), depth - 1, TRUE, mode, rnd) :
                         a \in ActionSet})

\* _alphabeta on the session state with the initial window
RootSearch(maximizing) ==
    LET h0 == NewState(<<>>, s)
    IN alphabeta(h0.heap, h0.addr, SearchDepth(opponent_type), -INF, INF, maximizing,
                 opponent_type, chosen.rnd)

\* C7: with the draws of the speculative ticks held fixed, the best value
\* found at the root of opponent_choose_action and the value of _alphabeta
\* with the initial window, maximizing or minimizing, equal the unpruned
\* minimax of the same depth over the same tree.
C7_AlphaBetaIsMinimax ==
    phase = "chosen" =>
        /\ chosen.best_val
              = Minimax(s, SearchDepth(opponent_type), FALSE, opponent_type, chosen.rnd)
        /\ RootSearch(FALSE).v
              = Minimax(s, SearchDepth(opponent_type), FALSE, opponent_type, chosen.rnd)
        /\ RootSearch(TRUE).v
              = Minimax(s, SearchDepth(opponent_type), TRUE, opponent_type, chosen.rnd)

\* a depth-4 search that pruned: fewer evaluations than the 6^4 leaves of the
\* full tree, and the minimax value all the same
C7_PrunedSearch ==
    /\ phase = "chosen"
    /\ opponent_type = "aggressive"
    /\ ~is_terminal(s)
    /\ chosen.leaves > 1 /\ chosen.leaves < 1296
    /\ chosen.best_val = Minimax(s, DEPTH_AGGRESSIVE, FALSE, opponent_type, chosen.rnd)

\* C4: any two ticks at which a combatant's last-attack tick was updated are
\* at least ATTACK_COOLDOWN_TICKS (12) apart, for the player and for the
\* opponent independently.
C4_AttacksApart ==
    /\ \A a \in p_attacks : \A b \in p_attacks : a < b => b - a >= 12
    /\ \A a \in o_attacks : \A b \in o_attacks : a < b => b - a >= 12

\* both combatants attacked twice, the second time as soon as allowed
C4_AttackedTwice ==
    /\ \E a \in p_attacks : a + ATTACK_COOLDOWN_TICKS \in p_attacks
    /\ \E a \in o_attacks : a + ATTACK_COOLDOWN_TICKS \in o_attacks

\* C11: the state a tick returns has the hazard sequence of its input: the
\* same (pos, lane, kind) triples in the same order, whoever ran into a
\* hazard during the step.
C11_HazardsKept ==
    phase = "ticked" =>
        /\ s.hazards = inp.hazards
        /\ Len(s.hazards) = HAZARD_COUNT

\* the player and a neutral ran into hazards in this tick, and the hazards
\* are all still there
C11_HazardsCrossed ==
    /\ phase = "ticked"
    /\ s.last_hazard_hit_player
    /\ \E i \in 1..Len(s.neutrals) : s.neutrals[i].health < inp.neutrals[i].health
    /\ s.hazards = inp.hazards

\* C12: from one iteration of the session to the next, boost-available never
\* turns true again; the iteration that consumes it starts the countdown at
\* BOOST_DURATION_TICKS before its tick; a countdown above 0 goes down by
\* exactly 1 in every tick; a countdown at 0 with the boost used up stays 0;
\* and the tick that brings it to 0 leaves the player at most at MAX_SPEED.
C12_BoostOnce ==
    [][/\ (~s.p_boost_avail => ~s'.p_boost_avail)
       /\ (s.p_boost_avail /\ ~s'.p_boost_avail =>
              /\ inp'.p_boost_ticks_left = BOOST_DURATION_TICKS
              /\ s'.p_boost_ticks_left = BOOST_DURATION_TICKS - 1)
       /\ (s.p_boost_avail /\ s'.p_boost_avail => s'.p_boost_ticks_left = 0)
       /\ (s.p_boost_ticks_left > 0 =>
              /\ ~s.p_boost_avail
              /\ s'.p_boost_ticks_left = s.p_boost_ticks_left - 1)
       /\ (s.p_boost_ticks_left = 0 /\ ~s.p_boost_avail => s'.p_boost_ticks_left = 0)
       /\ (s.p_boost_ticks_left = 1 => s'.p_speed <= MAX_SPEED)]_vars

\* the boost was started in this session, ran for its whole duration with
\* the player above MAX_SPEED, and brought the player back to MAX_SPEED at
\* the tick it ran out
C12_BoostRanItsCourse ==
    /\ steps >= BOOST_DURATION_TICKS
    /\ ~s.p_boost_avail
    /\ inp.p_boost_ticks_left = 1 /\ inp.p_speed > MAX_SPEED
    /\ s.p_boost_ticks_left = 0 /\ s.p_speed = MAX_SPEED

\* the healths decide, the finish line decides
HealthDecides == (s.p_health > 0 /\ s.o_health <= 0) \/ (s.o_health > 0 /\ s.p_health <= 0)

FinishDecides ==
    \/ s.p_pos >= TRACK_LENGTH /\ s.o_pos < TRACK_LENGTH
    \/ s.o_pos >= TRACK_LENGTH /\ s.p_pos < TRACK_LENGTH

\* C13: on termination the combatant with health > 0 wins when the other's
\* health is <= 0; otherwise the one at or past TRACK_LENGTH wins when the
\* other is short of it; otherwise the one with the strictly greater position
\* wins; the result is a draw exactly when none of these decides, which is
\* when the positions are equal.
C13_WinnerByPriority ==
    over =>
        /\ (s.p_health > 0 /\ s.o_health <= 0) => winner = "PLAYER"
        /\ (s.o_health > 0 /\ s.p_health <= 0) => winner = "OPPONENT"
        /\ (~HealthDecides /\ s.p_pos >= TRACK_LENGTH /\ s.o_pos < TRACK_LENGTH)
              => winner = "PLAYER"
        /\ (~HealthDecides /\ s.o_pos >= TRACK_LENGTH /\ s.p_pos < TRACK_LENGTH)
              => winner = "OPPONENT"
        /\ (~HealthDecides /\ ~FinishDecides /\ s.p_pos > s.o_pos) => winner = "PLAYER"
        /\ (~HealthDecides /\ ~FinishDecides /\ s.o_pos > s.p_pos) => winner = "OPPONENT"
        /\ winner = "DRAW" <=> (~HealthDecides /\ ~FinishDecides /\ s.p_pos = s.o_pos)
        /\ winner = "DRAW" => s.p_pos = s.o_pos

\* the session ended with the opponent knocked out in the very tick that
\* carried it alone over the finish line: the healths decide for the player
C13_KnockedOutOnTheLine ==
    /\ over
    /\ s.p_health > 0 /\ s.o_health <= 0
    /\ s.o_pos >= TRACK_LENGTH /\ s.p_pos < TRACK_LENGTH
    /\ winner = "PLAYER"

\* C14: after a step the hit-taken-by-controlled flag _last_hit_by_opponent
\* is true if and only if the opponent's attack damaged the player in that
\* step (its Attack was off cooldown with the player in its lane and in
\* range), whatever the flag was in the input state.
C14_FlagIffPlayerHit ==
    phase = "ticked" => (s.last_hit_by_opponent <=> OpponentStrikes)

\* C15: a call of the transition function with an action outside the six
\* returns no state, and a call of the search (and of the evaluation it
\* applies) with a style outside {aggressive, balanced, random} returns no
\* action: only calls with arguments of the closed sets return normally.
C15_OnlyValidCallsReturn ==
    /\ phase = "ticked" => (last_actions.you \in ActionSet /\ last_actions.opp \in ActionSet)
    /\ phase = "chosen" => opponent_type \in Styles

\* C16: the speculative ticks of opponent_choose_action and _alphabeta never
\* call try_beep: a search sounds no beep, whatever attacks land in the
\* futures it explores.
C16_SearchIsSilent == phase = "chosen" => beeps.search = 0

\* C17 as stated: the attack-opportunity feature is 1 exactly when the two
\* share a lane and the opponent is ahead of the player by a positive
\* distance of at most ATTACK_RANGE, and 0 otherwise.
C17_OpponentAheadInRange ==
    phase = "ticked" =>
        /\ attack_op(s) \in {0, 1}
        /\ attack_op(s) = 1 <=>
              (s.p_lane = s.o_lane /\ s.o_pos - s.p_pos > 0
               /\ s.o_pos - s.p_pos <= ATTACK_RANGE)

\* C17: the attack-opportunity feature is 1 exactly when the two share a
\* lane and the player is ahead of the opponent by a positive distance of at
\* most ATTACK_RANGE, and 0 otherwise; it enters the score with the
\* profile's attack weight.
C17_PlayerAheadInRange ==
    phase = "ticked" =>
        /\ attack_op(s) \in {0, 1}
        /\ attack_op(s) = 1 <=>
              (s.p_lane = s.o_lane /\ s.p_pos - s.o_pos > 0
               /\ s.p_pos - s.o_pos <= ATTACK_RANGE)
        /\ \A mode \in {"aggressive", "balanced"} :
              evaluate_state_fun(s, mode)
                - evaluate_state_fun([s EXCEPT !.o_lane = (s.p_lane + 1) % LANES], mode)
                = Weights(mode).attack * attack_op(s) * 1000000
                  + Weights(mode).collision * collision(s) * 1000000

\* the player has passed the opponent in its lane and is 0.078 ahead, the
\* race still on: the feature is 1
C17_PlayerJustAhead ==
    /\ phase = "ticked" /\ ~over
    /\ s.p_lane = s.o_lane
    /\ inp.p_pos < inp.o_pos
    /\ s.p_pos - s.o_pos = 780
    /\ attack_op(s) = 1

\* C18: after a step every neutral's speed lies in [0.5, NEUTRAL_MAX_SPEED],
\* the neutrals a hazard slowed in that step included.
C18_NeutralSpeedInRange ==
    phase = "ticked" =>
        \A i \in 1..Len(s.neutrals) :
            /\ s.neutrals[i].speed >= NEUTRAL_MIN_SPEED
            /\ s.neutrals[i].speed <= NEUTRAL_MAX_SPEED

\* C19: every session ends: the authoritative tick counter never exceeds
\* 7001, no transition is applied once is_terminal holds, and a terminal
\* state is eventually reached.
C19_SessionEnds ==
    /\ [](s.tick <= 7001)
    /\ [][over => s' = s]_vars
    /\ <>over

\* a session that ran from its fifth tick all the way to the tick bound and
\* ended there, by the bound alone
C19_RanToTheBound ==
    /\ over
    /\ s.tick = 7001 /\ steps = 7001 - 5
    /\ s.p_health > 0 /\ s.o_health > 0
    /\ s.p_pos < TRACK_LENGTH /\ s.o_pos < TRACK_LENGTH

\* 6^d, the number of leaves of the full tree of depth d
RECURSIVE FullTree(_)
FullTree(d) == IF d = 0 THEN 1 ELSE 6 * FullTree(d - 1)

\* C20: one call of opponent_choose_action with a searching style returns
\* one of the six actions after at most 6^d calls of evaluate_state_fun, d
\* being 3 for balanced and 4 for aggressive; the recursion goes at most d
\* plies below the root, and a search that stopped at ply k made at most 6^k
\* evaluations.
C20_SearchBounded ==
    phase = "chosen" =>
        /\ chosen.action \in ActionSet
        /\ chosen.leaves >= 1
        /\ opponent_type = "balanced" =>
              (chosen.plies <= 3 /\ chosen.leaves <= 6 * 6 * 6)
        /\ opponent_type = "aggressive" =>
              (chosen.plies <= 4 /\ chosen.leaves <= 6 * 6 * 6 * 6)
        /\ chosen.leaves <= FullTree(chosen.plies)

\* a depth-4 search that went down to depth 0 and made more than two
\* hundred evaluations
C20_SearchedToDepth ==
    /\ phase = "chosen"
    /\ opponent_type = "aggressive"
    /\ chosen.plies = 4
    /\ chosen.leaves > 200

\* the state of the last tick before its attacks, after the player's attack
\* and after both
Poised == BeforeAttacks(inp, last_actions.you, last_actions.opp, rnd_used)

PlayerStruck == PlayerAttack(Poised, last_actions.you)

BothStruck == OpponentAttack(PlayerStruck, last_actions.opp)

\* neutral i of st can be attacked from pos in lane
Eligible(st, lane, pos, i) ==
    /\ st.neutrals[i].health > 0
    /\ st.neutrals[i].lane = lane
    /\ abs(st.neutrals[i].pos - pos) <= ATTACK_RANGE

\* the neutrals whose health is lower in y than in x
HurtNeutrals(x, y) == {i \in 1..Len(x.neutrals) : y.neutrals[i].health < x.neutrals[i].health}

\* the attack from pos in lane that turned x into y lowered nothing but the
\* rival's health (from rival to rival_after) when the rival is in the lane
\* and in range, and otherwise nothing but the health of the first eligible
\* neutral, by ATTACK_DAMAGE clamped at 0
OneVictim(x, y, lane, pos, own, own_after, rival, rival_after) ==
    /\ own_after = own
    /\ \A i \in 1..Len(x.neutrals) :
          i \notin HurtNeutrals(x, y) => y.neutrals[i] = x.neutrals[i]
    /\ IF x.p_lane = x.o_lane /\ abs(x.p_pos - x.o_pos) <= ATTACK_RANGE
       THEN /\ rival_after = clamp(rival - ATTACK_DAMAGE, 0, MAX_HEALTH)
            /\ HurtNeutrals(x, y) = {}
       ELSE /\ rival_after = rival
            /\ Cardinality(HurtNeutrals(x, y)) <= 1
            /\ \A k \in HurtNeutrals(x, y) :
                  /\ Eligible(x, lane, pos, k)
                  /\ \A j \in 1..(k - 1) : ~Eligible(x, lane, pos, j)
                  /\ y.neutrals[k].health
                        = clamp(x.neutrals[k].health - ATTACK_DAMAGE, 0, MAX_HEALTH)
            /\ (\E i \in 1..Len(x.neutrals) : Eligible(x, lane, pos, i))
                  => HurtNeutrals(x, y) # {}

\* C21: an attack damages at most one entity.  With the opposing combatant
\* in the attacker's lane within ATTACK_RANGE only that combatant's health is
\* lowered and no neutral's; otherwise only the first neutral in stored
\* order that has health > 0, shares the attacker's lane and is within
\* ATTACK_RANGE, and no later one.  An Attack that is not effective and any
\* other action lower no health at that point of the tick.
C21_OneVictimPerAttack ==
    phase = "ticked" =>
        /\ s = AfterAttacks(BothStruck, rnd_used)
        /\ IF last_actions.you = "ATTACK"
              /\ inp.tick - inp.p_last_attack_tick >= ATTACK_COOLDOWN_TICKS
           THEN OneVictim(Poised, PlayerStruck, Poised.p_lane, Poised.p_pos,
                          Poised.p_health, PlayerStruck.p_health,
                          Poised.o_health, PlayerStruck.o_health)
           ELSE PlayerStruck = Poised
        /\ IF last_actions.opp = "ATTACK"
              /\ inp.tick - inp.o_last_attack_tick >= ATTACK_COOLDOWN_TICKS
           THEN OneVictim(PlayerStruck, BothStruck, PlayerStruck.o_lane, PlayerStruck.o_pos,
                          PlayerStruck.o_health, BothStruck.o_health,
                          PlayerStruck.p_health, BothStruck.p_health)
           ELSE BothStruck = PlayerStruck

\* in the showdown the player's attack lowered the opponent's health only,
\* with a live neutral of the lane in range between the two
C21_StruckTheRivalOnly ==
    /\ phase = "ticked"
    /\ last_actions.you = "ATTACK"
    /\ Eligible(Poised, Poised.p_lane, Poised.p_pos, 1)
    /\ PlayerStruck.o_health < Poised.o_health
    /\ HurtNeutrals(Poised, PlayerStruck) = {}
    /\ s.neutrals[1].health = inp.neutrals[1].health

\* nothing is in reach of an attack from pos in lane: the rival is not in
\* the lane within range and no live neutral is
NothingInReach(st, lane, pos) ==
    /\ ~(st.p_lane = st.o_lane /\ abs(st.p_pos - st.o_pos) <= ATTACK_RANGE)
    /\ \A i \in 1..Len(st.neutrals) : ~Eligible(st, lane, pos, i)

\* C22: an Attack off cooldown that has nothing in reach still sets the
\* attacker's last-attack tick to the tick the step began at, and lowers no
\* health and sets no hit flag; after it the attacker's last-attack tick is
\* not updated again before ATTACK_COOLDOWN_TICKS ticks have passed, and an
\* Attack the attacker issues in between is a Maintain, whatever is in reach
\* by then.
C22_MissConsumesCooldown ==
    phase = "ticked" =>
        /\ (/\ last_actions.you = "ATTACK"
            /\ inp.tick - inp.p_last_attack_tick >= ATTACK_COOLDOWN_TICKS
            /\ NothingInReach(Poised, Poised.p_lane, Poised.p_pos))
              => /\ s.p_last_attack_tick = inp.tick
                 /\ PlayerStruck = [Poised EXCEPT !.p_last_attack_tick = inp.tick]
                 /\ ~s.last_hit_by_player
                 /\ inp.tick \in misses.p
        /\ (/\ last_actions.opp = "ATTACK"
            /\ inp.tick - inp.o_last_attack_tick >= ATTACK_COOLDOWN_TICKS
            /\ NothingInReach(PlayerStruck, PlayerStruck.o_lane, PlayerStruck.o_pos))
              => /\ s.o_last_attack_tick = inp.tick
                 /\ BothStruck = [PlayerStruck EXCEPT !.o_last_attack_tick = inp.tick]
                 /\ ~s.last_hit_by_opponent
                 /\ inp.tick \in misses.o
        /\ \A t \in misses.p :
              /\ \A u \in p_attacks : u > t => u - t >= ATTACK_COOLDOWN_TICKS
              /\ (t < inp.tick /\ inp.tick - t < ATTACK_COOLDOWN_TICKS)
                    => /\ s.p_last_attack_tick = t
                       /\ ~s.last_hit_by_player
                       /\ s = TickBody(inp, IF last_actions.you = "ATTACK" THEN "MAINTAIN"
                                             ELSE last_actions.you,
                                        last_actions.opp, rnd_used)
        /\ \A t \in misses.o :
              /\ \A u \in o_attacks : u > t => u - t >= ATTACK_COOLDOWN_TICKS
              /\ (t < inp.tick /\ inp.tick - t < ATTACK_COOLDOWN_TICKS)
                    => /\ s.o_last_attack_tick = t
                       /\ ~s.last_hit_by_opponent
                       /\ s = TickBody(inp, last_actions.you,
                                        IF last_actions.opp = "ATTACK" THEN "MAINTAIN"
                                        ELSE last_actions.opp, rnd_used)

\* the player attacked from the next lane and hit nothing, moved over behind
\* the opponent and attacked again at the last tick of the cooldown, in
\* vain
C22_AttackedTooSoon ==
    /\ phase = "ticked"
    /\ last_actions.you = "ATTACK"
    /\ inp.tick - (ATTACK_COOLDOWN_TICKS - 1) \in misses.p
    /\ s.p_lane = s.o_lane /\ abs(s.p_pos - s.o_pos) <= ATTACK_RANGE
    /\ s.o_health = inp.o_health
    /\ ~s.last_hit_by_player

\* the depth-limited minimax value of the root candidate a: the unpruned
\* value of the child the opponent's action a leads to
CandidateValue(a) ==
    Minimax(TickBody(s, "MAINTAIN", a, chosen.rnd), SearchDepth(opponent_type) - 1, TRUE,
            opponent_type, chosen.rnd)

\* the values of the candidates in the order cand
CandidateValues(cand) ==
    <<CandidateValue(cand[1]), CandidateValue(cand[2]), CandidateValue(cand[3]),
      CandidateValue(cand[4]), CandidateValue(cand[5]), CandidateValue(cand[6])>>

\* the first place in vals that holds the least value
FirstLeast(vals) ==
    CHOOSE i \in 1..Len(vals) :
        /\ \A j \in 1..Len(vals) : vals[i] <= vals[j]
        /\ \A j \in 1..(i - 1) : vals[j] # vals[i]

\* C23: the best action of a search is the first action, in the shuffled
\* and Attack-prioritised order of the root candidates, whose depth-limited
\* minimax value is the minimum over the six candidates, and it is the
\* action returned when the final override does not fire.
C23_FirstOfTheBest ==
    phase = "chosen" =>
        \E cand \in {Candidates(s, chosen.order)} :
          \E vals \in {CandidateValues(cand)} :
            /\ Len(cand) = 6
            /\ chosen.best_action = cand[FirstLeast(vals)]
            /\ chosen.best_val = vals[FirstLeast(vals)]
            /\ chosen.override_roll >= 10 => chosen.action = chosen.best_action

\* a search whose first candidate has the least value and shares it with a
\* later one: the first stays the best action and is returned
C23_TiedCandidates ==
    /\ phase = "chosen"
    /\ chosen.override_roll >= 10
    /\ \E cand \in {Candidates(s, chosen.order)} :
         \E vals \in {CandidateValues(cand)} :
            /\ \E j \in (FirstLeast(vals) + 1)..6 : vals[j] = vals[FirstLeast(vals)]
            /\ chosen.action = cand[FirstLeast(vals)]
            /\ cand # ACTION_LIST

\* the lane a combatant in lane is in after a step with the action act
LaneAfter(lane, act) ==
    IF act = "LEFT" /\ lane > 0 THEN lane - 1
    ELSE IF act = "RIGHT" /\ lane < LANES - 1 THEN lane + 1
    ELSE lane

\* C24: after a step the lanes of the player, the opponent and every neutral
\* are integers in [0, LANES-1]; a combatant's lane moved by exactly one
\* when its own action was LEFT or RIGHT and the move stays on the road,
\* and is its lane before the step in every other case, whatever the other
\* combatant did.
C24_LanesOnTheRoad ==
    phase = "ticked" =>
        /\ s.p_lane \in 0..(LANES - 1)
        /\ s.o_lane \in 0..(LANES - 1)
        /\ \A i \in 1..Len(s.neutrals) : s.neutrals[i].lane \in 0..(LANES - 1)
        /\ s.p_lane = LaneAfter(inp.p_lane, last_actions.you)
        /\ s.o_lane = LaneAfter(inp.o_lane, last_actions.opp)

\* the player steered left against the edge and stayed in lane 0 while the
\* opponent steered right out of the same lane and a neutral drifted
C24_SteeredAtTheEdge ==
    /\ phase = "ticked"
    /\ last_actions.you = "LEFT" /\ inp.p_lane = 0 /\ s.p_lane = 0
    /\ last_actions.opp = "RIGHT" /\ inp.o_lane = 0 /\ s.o_lane = 1
    /\ \E i \in 1..Len(s.neutrals) : s.neutrals[i].lane # inp.neutrals[i].lane

\* the state of the last tick after its hazards, before the collisions
Hazarded == HazardLoop(BothStruck, rnd_used, 1, <<>>)

\* the neutrals of st with health > 0 within the bump distance of pos in lane
LiveBumpers(st, lane, pos) ==
    {i \in 1..Len(st.neutrals) :
        /\ st.neutrals[i].health > 0
        /\ st.neutrals[i].lane = lane
        /\ abs(st.neutrals[i].pos - pos) < BUMP_DISTANCE}

\* the rival is in the attacker's lane within range
RivalInReach(st) == st.p_lane = st.o_lane /\ abs(st.p_pos - st.o_pos) <= ATTACK_RANGE

\* the attack from pos in lane that turned x into y lowered the health of
\* the first neutral with health > 0 in reach, whatever neutrals with
\* health <= 0 come before it
FirstLiveIsHurt(x, y, lane, pos) ==
    \A i \in 1..Len(x.neutrals) :
        (Eligible(x, lane, pos, i) /\ \A j \in 1..(i - 1) : ~Eligible(x, lane, pos, j))
            => y.neutrals[i].health < x.neutrals[i].health

\* C25: after a step the neutral sequence has the length and the identities
\* of the input's, in the same order.  A neutral with health <= 0 is inert:
\* the collisions take 0.02 from a combatant once for every neutral with
\* health > 0 beside it and nothing for any other, leaving health and speed
\* alone when there is none; and an attack hits (sets its hit flag) exactly
\* when the rival or a neutral with health > 0 is in reach, and with the
\* rival out of reach it lowers the health of the first neutral with
\* health > 0 in reach, a neutral with health <= 0 before it taking nothing
\* of the attack.
C25_NeutralsStayAndTheDeadAreInert ==
    phase = "ticked" =>
        /\ Len(s.neutrals) = Len(inp.neutrals)
        /\ \A i \in 1..Len(inp.neutrals) : s.neutrals[i].id = inp.neutrals[i].id
        /\ \A i \in 1..Len(inp.neutrals) :
              inp.neutrals[i].health <= 0 => s.neutrals[i].health = inp.neutrals[i].health
        /\ s = NextTick(BumpLoop(Hazarded, 1))
        /\ s.p_health
              = max(0, Hazarded.p_health
                         - BUMP_DAMAGE
                             * Cardinality(LiveBumpers(Hazarded, Hazarded.p_lane, Hazarded.p_pos)))
        /\ s.o_health
              = max(0, Hazarded.o_health
                         - BUMP_DAMAGE
                             * Cardinality(LiveBumpers(Hazarded, Hazarded.o_lane, Hazarded.o_pos)))
        /\ LiveBumpers(Hazarded, Hazarded.p_lane, Hazarded.p_pos) = {}
              => s.p_speed = Hazarded.p_speed
        /\ LiveBumpers(Hazarded, Hazarded.o_lane, Hazarded.o_pos) = {}
              => s.o_speed = Hazarded.o_speed
        /\ s.last_hit_by_player
              <=> /\ last_actions.you = "ATTACK"
                  /\ inp.tick - inp.p_last_attack_tick >= ATTACK_COOLDOWN_TICKS
                  /\ \/ RivalInReach(Poised)
                     \/ \E i \in 1..Len(Poised.neutrals) :
                           Eligible(Poised, Poised.p_lane, Poised.p_pos, i)
        /\ s.last_hit_by_opponent
              <=> /\ last_actions.opp = "ATTACK"
                  /\ inp.tick - inp.o_last_attack_tick >= ATTACK_COOLDOWN_TICKS
                  /\ \/ RivalInReach(PlayerStruck)
                     \/ \E i \in 1..Len(PlayerStruck.neutrals) :
                           Eligible(PlayerStruck, PlayerStruck.o_lane, PlayerStruck.o_pos, i)
        /\ (/\ last_actions.you = "ATTACK"
            /\ inp.tick - inp.p_last_attack_tick >= ATTACK_COOLDOWN_TICKS
            /\ ~RivalInReach(Poised))
              => FirstLiveIsHurt(Poised, PlayerStruck, Poised.p_lane, Poised.p_pos)
        /\ (/\ last_actions.opp = "ATTACK"
            /\ inp.tick - inp.o_last_attack_tick >= ATTACK_COOLDOWN_TICKS
            /\ ~RivalInReach(PlayerStruck))
              => FirstLiveIsHurt(PlayerStruck, BothStruck, PlayerStruck.o_lane,
                                 PlayerStruck.o_pos)

\* in the pack the knocked-out neutral 1 rides beside the player, first in
\* order and in range: the player's attack passes it over for neutral 2 and
\* the player is not bumped
C25_PassedOverTheDead ==
    /\ phase = "ticked"
    /\ last_actions.you = "ATTACK"
    /\ inp.neutrals[1].health = 0
    /\ s.neutrals[1].lane = s.p_lane
    /\ abs(s.neutrals[1].pos - s.p_pos) < BUMP_DISTANCE
    /\ s.neutrals[2].health < inp.neutrals[2].health
    /\ s.p_health = inp.p_health /\ s.p_speed = inp.p_speed
    /\ \A i \in 1..Len(inp.neutrals) : s.neutrals[i].id = i

\* both issued Attack in the last tick off cooldown, in the same lane within
\* range after the movement
BothStrike ==
    /\ phase = "ticked"
    /\ last_actions.you = "ATTACK" /\ last_actions.opp = "ATTACK"
    /\ inp.tick - inp.p_last_attack_tick >= ATTACK_COOLDOWN_TICKS
    /\ inp.tick - inp.o_last_attack_tick >= ATTACK_COOLDOWN_TICKS
    /\ RivalInReach(Poised)

\* C26: when both combatants issue Attack in the same tick off cooldown, in
\* the same lane within range, each takes ATTACK_DAMAGE (clamped at 0) in
\* that tick: the player's attack, resolved first, lowers the opponent's
\* health, and the opponent's attack then lowers the player's all the same,
\* also when the opponent's health is 0 by then; both hit flags are set and
\* both last-attack ticks are the tick the step began at.
C26_BothAttacksLand ==
    BothStrike =>
        /\ PlayerStruck.o_health = clamp(inp.o_health - ATTACK_DAMAGE, 0, MAX_HEALTH)
        /\ PlayerStruck.p_health = inp.p_health
        /\ BothStruck.p_health = clamp(inp.p_health - ATTACK_DAMAGE, 0, MAX_HEALTH)
        /\ BothStruck.o_health = PlayerStruck.o_health
        /\ s = AfterAttacks(BothStruck, rnd_used)
        /\ s.p_health <= clamp(inp.p_health - ATTACK_DAMAGE, 0, MAX_HEALTH)
        /\ s.o_health <= clamp(inp.o_health - ATTACK_DAMAGE, 0, MAX_HEALTH)
        /\ s.last_hit_by_player /\ s.last_hit_by_opponent
        /\ s.p_last_attack_tick = inp.tick /\ s.o_last_attack_tick = inp.tick

\* in the showdown the player's attack knocked the opponent out (0.2 to 0)
\* and the opponent's attack of the same tick took 0.28 from the player
C26_KnockedOutYetStruck ==
    /\ BothStrike
    /\ inp.o_health > 0 /\ PlayerStruck.o_health = 0
    /\ s.o_health = 0
    /\ s.p_health = inp.p_health - ATTACK_DAMAGE
    /\ s.last_hit_by_opponent
    /\ over

\* C27: health never increases: after a step the health of the player, of
\* the opponent and of every neutral is at most its health before the step,
\* so that a health that is 0 stays 0.
C27_HealthNeverIncreases ==
    phase = "ticked" =>
        /\ s.p_health <= inp.p_health
        /\ s.o_health <= inp.o_health
        /\ \A i \in 1..Len(inp.neutrals) : s.neutrals[i].health <= inp.neutrals[i].health
        /\ \A i \in 1..Len(inp.neutrals) :
              inp.neutrals[i].health = 0 => s.neutrals[i].health = 0

\* a tick of the melee in which attack, hazards and collisions all took
\* health: both combatants and a neutral came out lower, nobody higher
C27_EveryoneLost ==
    /\ phase = "ticked"
    /\ s.last_hit_by_opponent /\ s.last_hazard_hit_player /\ s.last_hazard_hit_opponent
    /\ s.p_health < inp.p_health - ATTACK_DAMAGE
    /\ s.o_health < inp.o_health
    /\ \E i \in 1..Len(inp.neutrals) : s.neutrals[i].health < inp.neutrals[i].health

=============================================================================
